---- MODULE Spec2Model ----
(***************************************************************************)
(* A model of the Arknights battle simulator: the battle world of          *)
(* game_map.py (grid, deployment economy, tick update, blocking, combat,   *)
(* wave scheduler), the entities of game_entities.py, the skill state      *)
(* machine of skill_system.py and the run loop of battle_simulator.py.     *)
(*                                                                         *)
(* Times, SP, cost and movement progress are Python floats in the source.  *)
(* They are modelled as IEEE-754 binary64 values, with round-to-nearest-   *)
(* even after every addition and subtraction, because the number of ticks  *)
(* a countdown takes depends on the rounding (5.0 - 50 * 0.1 > 0).         *)
(***************************************************************************)
EXTENDS Integers, Sequences, FiniteSets, TLC

(***************************************************************************)
(* binary64 arithmetic.  A float is <<s, a, b, c>>: sign s (1 or -1) and   *)
(* magnitude (a * 2^48 + b * 2^24 + c) * 2^-60, kept in three limbs        *)
(* because the integers of the checker are 32 bits wide.  Every float of   *)
(* the model is a multiple of 2^-60 below 2^16; a binary64 value of        *)
(* magnitude N * 2^-60 with N >= 2^53 has its last mantissa bit at         *)
(* 2^(floor(log2 N) - 52), and sums are rounded to that bit, ties to even. *)
(***************************************************************************)
Limb == 2^24

None == "None"

RECURSIVE Pow2Floor(_)
Pow2Floor(n) == IF n < 2 THEN 1 ELSE 2 * Pow2Floor(n \div 2)

\* the weight of the last mantissa bit, in units of 2^-60, from the top limb
Granule(a) == IF a < 32 THEN 1 ELSE Pow2Floor(a) \div 16

FZero == <<1, 0, 0, 0>>

IsZero(x) == x[2] = 0 /\ x[3] = 0 /\ x[4] = 0

MagLt(x, y) ==
    \/ x[2] < y[2]
    \/ x[2] = y[2] /\ x[3] < y[3]
    \/ x[2] = y[2] /\ x[3] = y[3] /\ x[4] < y[4]

\* carries of the limbs: c into b, b into a
Carry(s, a, b, c) ==
    LET b1 == b + (c \div Limb)
    IN  <<s, a + (b1 \div Limb), b1 % Limb, c % Limb>>

\* round the exact magnitude to the 53-bit mantissa, ties to even
RoundMag(s, a, b, c) ==
    LET g    == Granule(a)
        r    == c % g
        q    == c \div g
        up   == (2 * r > g) \/ (2 * r = g /\ q % 2 = 1)
        c1   == IF up THEN c - r + g ELSE c - r
    IN  Carry(s, a, b, c1)

MagAdd(s, x, y) ==
    LET e == Carry(s, x[2] + y[2], x[3] + y[3], x[4] + y[4])
    IN  RoundMag(s, e[2], e[3], e[4])

\* x - y for magnitudes with x >= y
MagSub(s, x, y) ==
    LET c0 == x[4] - y[4]
        bc == IF c0 < 0 THEN 1 ELSE 0
        b0 == x[3] - y[3] - bc
        bb == IF b0 < 0 THEN 1 ELSE 0
        a0 == x[2] - y[2] - bb
        e  == <<s, a0, b0 + bb * Limb, c0 + bc * Limb>>
    IN  IF IsZero(e) THEN FZero ELSE RoundMag(s, e[2], e[3], e[4])

FNeg(x) == IF IsZero(x) THEN x ELSE <<0 - x[1], x[2], x[3], x[4]>>

\* x + y of two binary64 values
FAdd(x, y) ==
    IF x[1] = y[1] THEN MagAdd(x[1], x, y)
    ELSE IF MagLt(x, y) THEN MagSub(y[1], y, x)
    ELSE MagSub(x[1], x, y)

\* x - y of two binary64 values
FSub(x, y) == FAdd(x, FNeg(y))

\* x < y
FLt(x, y) ==
    IF x[1] = 1 /\ y[1] = 1 THEN MagLt(x, y)
    ELSE IF x[1] = -1 /\ y[1] = -1 THEN MagLt(y, x)
    ELSE x[1] = -1 /\ ~(IsZero(x) /\ IsZero(y))

FLe(x, y) == ~FLt(y, x)

FMin(x, y) == IF FLt(y, x) THEN y ELSE x

\* an integer as a float
FInt(n) == IF n >= 0 THEN <<1, n * 4096, 0, 0>> ELSE <<-1, (0 - n) * 4096, 0, 0>>

\* the binary64 values of the decimal literals the model uses
F0_1 == <<1, 409, 10066329, 10066336>>
F0_2 == <<1, 819, 3355443, 3355456>>
F0_3 == <<1, 1228, 13421772, 13421760>>
F0_5 == <<1, 2048, 0, 0>>


\* the time step of the run loop, 0.1 s
time_step == F0_1

(***************************************************************************)
(* The state.  cfg is the input of a run (level data, enemy table,         *)
(* operator configuration); it never changes.  gm, tiles, operators,       *)
(* enemies and waves are the GameMap and the objects it owns; sim is the   *)
(* run loop of BattleSimulator (after_update: the last step was a call of  *)
(* GameMap.update, so the state is a tick boundary); last is the log entry *)
(* of the last script command (tick: the number of updates done when it    *)
(* ran); arg and ret are the argument and the result of the last call of a *)
(* pure function applied on its own.                                       *)
(***************************************************************************)
VARIABLES cfg, gm, tiles, operators, enemies, waves, sim, last, arg, ret

vars == <<cfg, gm, tiles, operators, enemies, waves, sim, last, arg, ret>>

worldVars == <<gm, tiles, operators, enemies, waves>>

(***************************************************************************)
(* Positions and the grid                                                  *)
(***************************************************************************)
\* Operator.position holds the placement class ("MELEE" / "RANGED") until
\* the first deploy, a Position while deployed and None after a retreat;
\* Enemy.position holds a Position or None.  One record shape carries all
\* three, so that two of them can always be compared.
Position(row, col) == [kind |-> "pos", str |-> "", row |-> row, col |-> col]

StrPos(s) == [kind |-> "str", str |-> s, row |-> 0, col |-> 0]

NonePos == [kind |-> "none", str |-> "", row |-> 0, col |-> 0]

\* Python truthiness of a position attribute: None is false, a Position
\* object and a non-empty string are true
Truthy(p) == p.kind # "none"

is_valid_position(position) ==
    /\ 0 <= position.row /\ position.row < Len(cfg.map_layout)
    /\ 0 <= position.col /\ position.col < Len(cfg.map_layout[1])

\* no tile (get_tile_at returns None), no route (the enemy has no path)
NoTile == 0 - 1

NoRoute == 0 - 1

\* the index of the tile at a position, NoTile when there is none
get_tile_at(position) ==
    IF ~is_valid_position(position) THEN NoTile
    ELSE LET corrected_row == Len(cfg.map_layout) - 1 - position.row
             tile_index == cfg.map_layout[corrected_row + 1][position.col + 1]
         IN  IF tile_index \in DOMAIN cfg.tiles THEN tile_index ELSE NoTile

\* Tile.can_deploy_operator: occ is the tile's deployed_operator, bt its
\* buildable type, opos the operator's position attribute
can_deploy_operator(occ, bt, opos) ==
    IF occ # None THEN FALSE
    ELSE IF bt = "NONE" THEN FALSE
    ELSE IF bt = "MELEE" /\ opos # StrPos("MELEE") THEN FALSE
    ELSE IF bt = "RANGED" /\ opos # StrPos("RANGED") THEN FALSE
    ELSE TRUE

\* w is the world: [gm, tiles, ops, en, waves]
can_deploy_at(w, position, o) ==
    LET tile == get_tile_at(position)
    IN  IF tile = NoTile THEN FALSE
        ELSE can_deploy_operator(w.tiles[tile], cfg.tiles[tile], w.ops[o].position)

\* a compatibility test that refuses the tiles open to every class
check_operator_tile_compatibility_noall(opos, bt) ==
    IF bt = "NONE" THEN FALSE
    ELSE IF bt = "ALL" THEN FALSE
    ELSE IF bt = "MELEE" THEN opos = StrPos("MELEE")
    ELSE IF bt = "RANGED" THEN opos = StrPos("RANGED")
    ELSE FALSE

\* _check_operator_tile_compatibility on the operator's position attribute
\* and the tile's buildable type
check_operator_tile_compatibility(opos, bt) ==
    IF bt = "NONE" THEN FALSE
    ELSE IF bt = "ALL" THEN TRUE
    ELSE IF bt = "MELEE" THEN opos = StrPos("MELEE")
    ELSE IF bt = "RANGED" THEN opos = StrPos("RANGED")
    ELSE FALSE

(***************************************************************************)
(* Sequences as Python lists                                               *)
(***************************************************************************)
InSeq(x, s) == \E i \in 1..Len(s) : s[i] = x

\* list.remove(x): drops the first occurrence
RECURSIVE ListRemove(_, _)
ListRemove(s, x) ==
    IF s = <<>> THEN <<>>
    ELSE IF Head(s) = x THEN Tail(s)
    ELSE <<Head(s)>> \o ListRemove(Tail(s), x)

Max(a, b) == IF a >= b THEN a ELSE b

\* F applied to the value v: names an intermediate result of a handler
Bind(v, F(_)) == F(v)


(***************************************************************************)
(* Skills (skill_system.py).  A skill record holds the fields of its       *)
(* current SkillLevel (skill_type, duration_type, duration, ammo, sp_type, *)
(* sp_cost, max_charge_time, increment) and its own state (current_sp,     *)
(* charge_count, is_active, remaining_duration, remaining_ammo).           *)
(***************************************************************************)
\* level.increment * delta_time * sp_gain_rate at the 0.1 s step and rate
\* 1.0, for the increments the model uses (the products are exact)
SpGain(increment) ==
    CASE increment = FInt(1) -> F0_1
      [] increment = FInt(2) -> F0_2
      [] increment = FInt(5) -> F0_5
      [] OTHER -> FZero

\* a readiness test that lets a passive skill through
can_activate_passive(s) ==
    IF s.max_charge_time > 1 THEN s.charge_count > 0
    ELSE FLe(s.sp_cost, s.current_sp)

can_activate(s) ==
    IF s.skill_type = "PASSIVE" THEN FALSE
    ELSE IF s.max_charge_time > 1 THEN s.charge_count > 0
    ELSE FLe(s.sp_cost, s.current_sp)

should_auto_activate(s) ==
    IF s.skill_type # "AUTO" THEN FALSE
    ELSE IF s.max_charge_time > 1 THEN s.charge_count >= s.max_charge_time
    ELSE FLe(s.sp_cost, s.current_sp)

\* an activation that spends every banked charge
activate_drain(s) ==
    IF ~can_activate(s) /\ ~should_auto_activate(s) THEN s
    ELSE LET s1 == IF s.max_charge_time > 1
                   THEN [s EXCEPT !.charge_count = 0]
                   ELSE [s EXCEPT !.current_sp = FZero]
             s2 == [s1 EXCEPT !.is_active = TRUE]
         IN  IF s.duration_type = "SECONDS"
             THEN [s2 EXCEPT !.remaining_duration = s.duration]
             ELSE IF s.duration_type = "AMMO"
             THEN [s2 EXCEPT !.remaining_ammo = s.ammo]
             ELSE s2

\* Skill.activate: the skill afterwards (unchanged when it returns False)
activate(s) ==
    IF ~can_activate(s) /\ ~should_auto_activate(s) THEN s
    ELSE LET s1 == IF s.max_charge_time > 1
                   THEN [s EXCEPT !.charge_count = @ - 1]
                   ELSE [s EXCEPT !.current_sp = FZero]
             s2 == [s1 EXCEPT !.is_active = TRUE]
         IN  IF s.duration_type = "SECONDS"
             THEN [s2 EXCEPT !.remaining_duration = s.duration]
             ELSE IF s.duration_type = "AMMO"
             THEN [s2 EXCEPT !.remaining_ammo = s.ammo]
             ELSE s2

\* a banking loop that does not stop at the last charge slot
RECURSIVE bank_charges_unbounded(_)
bank_charges_unbounded(s) ==
    IF FLe(s.sp_cost, s.current_sp) /\ s.charge_count < s.max_charge_time + 1
    THEN bank_charges_unbounded([s EXCEPT !.current_sp = FSub(@, s.sp_cost),
                                          !.charge_count = @ + 1])
    ELSE s

\* the while loop of update_sp and _gain_sp that banks charges
RECURSIVE bank_charges(_)
bank_charges(s) ==
    IF FLe(s.sp_cost, s.current_sp) /\ s.charge_count < s.max_charge_time
    THEN bank_charges([s EXCEPT !.current_sp = FSub(@, s.sp_cost),
                                !.charge_count = @ + 1])
    ELSE s

\* a regeneration that is not gated to time-based skills
update_sp_ungated(s) ==
    LET sp_gain == SpGain(s.increment)
    IN  IF s.max_charge_time > 1
        THEN bank_charges([s EXCEPT !.current_sp = FAdd(@, sp_gain)])
        ELSE [s EXCEPT !.current_sp = FMin(FAdd(@, sp_gain), s.sp_cost)]

update_sp(s) ==
    IF s.sp_type # "INCREASE_WITH_TIME" THEN s
    ELSE LET sp_gain == SpGain(s.increment)
         IN  IF s.max_charge_time > 1
             THEN bank_charges([s EXCEPT !.current_sp = FAdd(@, sp_gain)])
             ELSE [s EXCEPT !.current_sp = FMin(FAdd(@, sp_gain), s.sp_cost)]

\* Skill._gain_sp
gain_sp(s, sp_amount) ==
    IF s.max_charge_time > 1
    THEN bank_charges([s EXCEPT !.current_sp = FAdd(@, sp_amount)])
    ELSE [s EXCEPT !.current_sp = FMin(FAdd(@, sp_amount), s.sp_cost)]

\* Skill.gain_sp_on_attack and gain_sp_on_damage with sp_gain = 1.0, so that
\* sp_gain * increment is the increment
gain_sp_on_attack(s) ==
    IF s.sp_type = "INCREASE_WHEN_ATTACK" THEN gain_sp(s, s.increment) ELSE s

gain_sp_on_damage(s) ==
    IF s.sp_type = "INCREASE_WHEN_TAKEN_DAMAGE" THEN gain_sp(s, s.increment) ELSE s

deactivate(s) ==
    [s EXCEPT !.is_active = FALSE, !.remaining_duration = FZero, !.remaining_ammo = 0]

update_duration(s) ==
    IF ~s.is_active THEN s
    ELSE IF s.duration_type = "SECONDS"
    THEN LET r == FSub(s.remaining_duration, time_step)
         IN  IF FLe(r, FZero) THEN deactivate(s)
             ELSE [s EXCEPT !.remaining_duration = r]
    ELSE IF s.duration_type = "NONE" THEN deactivate(s)
    ELSE s

\* Skill.consume_ammo: the skill afterwards
consume_ammo(s) ==
    IF s.duration_type = "AMMO" /\ s.is_active
    THEN IF s.remaining_ammo - 1 <= 0 THEN deactivate(s)
         ELSE [s EXCEPT !.remaining_ammo = @ - 1]
    ELSE s

(***************************************************************************)
(* Entities (game_entities.py)                                             *)
(***************************************************************************)
\* int(x / 2) of Python for an integer x: truncation toward zero
TruncHalf(x) == IF x >= 0 THEN x \div 2 ELSE 0 - ((0 - x) \div 2)

\* a damage formula without the floor of 1
actual_damage_nofloor(damage, def_, mr2, is_arts) ==
    IF is_arts THEN TruncHalf(damage * (2 - mr2)) ELSE damage - def_

\* the damage a hit deals: magic resistance is kept in halves (mr2 / 2), so
\* damage * (1 - magic_resistance) is the exact float damage * (2 - mr2) / 2
actual_damage(damage, def_, mr2, is_arts) ==
    IF is_arts THEN Max(1, TruncHalf(damage * (2 - mr2)))
    ELSE Max(1, damage - def_)

\* GameEntity.take_damage on an operator or enemy record
take_damage(e, damage, is_arts) ==
    LET hp == Max(0, e.current_hp - actual_damage(damage, e.def_, e.mr2, is_arts))
    IN  [e EXCEPT !.current_hp = hp,
                  !.is_alive = IF hp <= 0 THEN FALSE ELSE @]

\* Operator.activate_skill_by_index: the operator afterwards and the result.
\* self.skills[skill_index] is a Python list access: a negative index counts
\* from the end of the list, and one below -len raises IndexError
activate_skill_by_index(o, skill_index) ==
    IF o.skills = <<>> THEN [o |-> o, success |-> FALSE, reason |-> "no_skills"]
    ELSE IF skill_index >= Len(o.skills)
    THEN [o |-> o, success |-> FALSE, reason |-> "index_out_of_range"]
    ELSE IF skill_index < 0 - Len(o.skills)
    THEN [o |-> o, success |-> FALSE, reason |-> "IndexError"]
    ELSE LET i == IF skill_index < 0 THEN Len(o.skills) + skill_index + 1
                  ELSE skill_index + 1
             skill == o.skills[i]
         IN  IF can_activate(skill)
             THEN [o |-> [o EXCEPT !.skills[i] = activate(skill)],
                   success |-> TRUE, reason |-> ""]
             ELSE [o |-> o, success |-> FALSE, reason |-> "insufficient_sp"]

\* the loop of Operator.update_skills from skill i on
RECURSIVE update_skills_from(_, _)
update_skills_from(o, i) ==
    IF i > Len(o.skills) THEN o
    ELSE Bind([o EXCEPT !.skills[i] = update_duration(update_sp(@))], LAMBDA o1 :
             update_skills_from(IF should_auto_activate(o1.skills[i])
                                THEN activate_skill_by_index(o1, i - 1).o
                                ELSE o1,
                                i + 1))

update_skills(o) == update_skills_from(o, 1)

\* Operator.update (no buff is ever applied, so update_buffs changes nothing)
operator_update(o) ==
    IF ~o.is_deployed THEN o
    ELSE Bind(update_skills(o), LAMBDA o1 :
             [o1 EXCEPT !.attack_cooldown =
                            IF FLt(FZero, @) THEN FSub(@, time_step) ELSE @,
                        !.deploy_time = FAdd(@, time_step)])

operator_deploy(o, position, direction) ==
    [o EXCEPT !.position = position, !.direction = direction,
              !.is_deployed = TRUE, !.deploy_time = FZero]

\* Operator.retreat (target is never set, and current_sp is an attribute of
\* the operator that nothing reads: the skills keep their own SP)
operator_retreat(o) ==
    [o EXCEPT !.is_deployed = FALSE, !.position = NonePos,
              !.blocked_enemies = <<>>]

(***************************************************************************)
(* GameMap: deployment (game_map.py)                                       *)
(***************************************************************************)
Result(w, success, reason) == [w |-> w, success |-> success, reason |-> reason]

\* the success branch of deploy_operator: Tile.deploy_operator has set the
\* tile's operator
do_deploy(w, o, tile, position, direction) ==
    [w EXCEPT !.tiles[tile] = o,
              !.ops[o] = operator_deploy(@, position, direction),
              !.gm.deployed_operators = Append(@, o),
              !.gm.current_cost = FSub(@, FInt(w.ops[o].deploy_cost))]

\* a cost check that lets an underfunded operator through
cost_insufficient_never(current_cost, deploy_cost) == FALSE

cost_insufficient(current_cost, deploy_cost) == FLt(current_cost, FInt(deploy_cost))

deploy_operator(w, o, position, direction) ==
    IF ~is_valid_position(position) THEN Result(w, FALSE, "invalid_position")
    ELSE LET tile == get_tile_at(position)
         IN  IF tile = NoTile THEN Result(w, FALSE, "no_tile")
             ELSE IF w.tiles[tile] # None THEN Result(w, FALSE, "occupied")
             ELSE IF ~check_operator_tile_compatibility(w.ops[o].position, cfg.tiles[tile])
             THEN Result(w, FALSE, "incompatible")
             ELSE IF cost_insufficient(w.gm.current_cost, w.ops[o].deploy_cost)
             THEN Result(w, FALSE, "insufficient_cost")
             ELSE IF Len(w.gm.deployed_operators) >= cfg.character_limit
             THEN Result(w, FALSE, "roster_full")
             ELSE IF can_deploy_operator(w.tiles[tile], cfg.tiles[tile], w.ops[o].position)
             THEN Result(do_deploy(w, o, tile, position, direction), TRUE, "")
             ELSE Result(w, FALSE, "tile_refused")

\* Tile.remove_operator
remove_operator(w, tile) ==
    IF w.tiles[tile] = None THEN w
    ELSE [w EXCEPT !.ops[w.tiles[tile]] = operator_retreat(@),
                   !.tiles[tile] = None]

retreat_operator(w, o) ==
    IF ~InSeq(o, w.gm.deployed_operators) THEN Result(w, FALSE, "not_deployed")
    ELSE LET tile == IF Truthy(w.ops[o].position)
                     THEN get_tile_at(w.ops[o].position) ELSE NoTile
             w1 == IF tile # NoTile THEN remove_operator(w, tile) ELSE w
         IN  Result([w1 EXCEPT !.gm.deployed_operators = ListRemove(@, o),
                               !.ops[o] = operator_retreat(@)], TRUE, "")

(***************************************************************************)
(* Enemies (game_entities.py)                                              *)
(***************************************************************************)
F1 == FInt(1)

\* move_speed * delta_time at the 0.1 s step, for the speeds the model uses
\* (the products are exact binary64 values)
MoveDistance(move_speed) ==
    CASE move_speed = FInt(1) -> F0_1
      [] move_speed = FInt(2) -> F0_2
      [] move_speed = FInt(5) -> F0_5
      [] move_speed = FInt(10) -> F1
      [] OTHER -> FZero

\* the path of an enemy: the route's path, or empty when spawn_enemy found
\* no route of that index
PathOf(e) == IF e.route = NoRoute THEN <<>> ELSE cfg.paths[e.route + 1]

\* the while loop of Enemy.move
RECURSIVE move_steps(_)
move_steps(e) ==
    IF FLe(F1, e.move_progress) /\ e.path_index < Len(PathOf(e)) - 1
    THEN LET e1 == [e EXCEPT !.move_progress = FSub(@, F1),
                             !.path_index = @ + 1,
                             !.position = PathOf(e)[e.path_index + 2]]
         IN  IF e1.path_index = Len(PathOf(e)) - 1
             THEN [e1 EXCEPT !.has_reached_goal = TRUE]
             ELSE move_steps(e1)
    ELSE e

move(e) ==
    IF e.is_blocked \/ PathOf(e) = <<>> \/ e.path_index >= Len(PathOf(e)) - 1 THEN e
    ELSE move_steps([e EXCEPT !.move_progress = FAdd(@, MoveDistance(e.move_speed))])

\* a link that forgets the blocked flag
get_blocked_by_noflag(e, o) == [e EXCEPT !.blocked_by = o]

get_blocked_by(e, o) == [e EXCEPT !.is_blocked = TRUE, !.blocked_by = o]

release_block(e) == [e EXCEPT !.is_blocked = FALSE, !.blocked_by = None]

\* Enemy.update (no buff is ever applied)
enemy_update(e) ==
    LET e1 == IF FLt(FZero, e.attack_cooldown)
              THEN [e EXCEPT !.attack_cooldown = FSub(@, time_step)]
              ELSE e
    IN  IF ~e1.is_blocked THEN move(e1) ELSE e1

\* Enemy.__init__ and set_path
NewEnemy(key, route) ==
    LET d == cfg.enemy_db[key]
        path == IF route = NoRoute THEN <<>> ELSE cfg.paths[route + 1]
    IN  [key |-> key, max_hp |-> d.max_hp, current_hp |-> d.max_hp,
         atk |-> d.atk, def_ |-> d.def_, mr2 |-> d.mr2,
         move_speed |-> d.move_speed, attack_interval |-> d.attack_interval,
         is_alive |-> TRUE, route |-> route, path_index |-> 0,
         move_progress |-> FZero,
         position |-> IF path = <<>> THEN NonePos ELSE path[1],
         is_blocked |-> FALSE, blocked_by |-> None,
         attack_cooldown |-> FZero, has_reached_goal |-> FALSE]

spawn_enemy(w, enemy_id, route_index) ==
    IF enemy_id \notin DOMAIN cfg.enemy_db THEN w
    ELSE LET route == IF route_index < Len(cfg.paths) THEN route_index ELSE NoRoute
             e == NewEnemy(enemy_id, route)
         IN  [w EXCEPT !.en = Append(@, e),
                       !.gm.active_enemies = Append(@, Len(w.en) + 1)]

(***************************************************************************)
(* GameMap.update (game_map.py)                                            *)
(***************************************************************************)
\* an operator loop that leaves dead operators in the roster
RECURSIVE update_operators_keep_dead(_, _, _)
update_operators_keep_dead(w, roster, i) ==
    IF i > Len(roster) THEN w
    ELSE update_operators_keep_dead([w EXCEPT !.ops[roster[i]] = operator_update(@)],
                                    roster, i + 1)

\* the loop over deployed_operators[:] : roster is the copy taken before it
RECURSIVE update_operators(_, _, _)
update_operators(w, roster, i) ==
    IF i > Len(roster) THEN w
    ELSE Bind([w EXCEPT !.ops[roster[i]] = operator_update(@)], LAMBDA w1 :
             update_operators(IF ~w1.ops[roster[i]].is_alive
                              THEN retreat_operator(w1, roster[i]).w
                              ELSE w1,
                              roster, i + 1))

\* the loop over active_enemies[:] : active is the copy taken before it
RECURSIVE update_enemies(_, _, _)
update_enemies(w, active, i) ==
    IF i > Len(active) THEN w
    ELSE Bind([w EXCEPT !.en[active[i]] = enemy_update(@)], LAMBDA w1 :
             update_enemies(
                 IF w1.en[active[i]].has_reached_goal
                 THEN [w1 EXCEPT !.gm.current_life_points = @ - 1,
                                 !.gm.active_enemies = ListRemove(@, active[i]),
                                 !.gm.is_defeat =
                                     IF w1.gm.current_life_points - 1 <= 0
                                     THEN TRUE ELSE @]
                 ELSE IF ~w1.en[active[i]].is_alive
                 THEN [w1 EXCEPT !.gm.active_enemies = ListRemove(@, active[i])]
                 ELSE w1,
                 active, i + 1))

\* Operator.get_rotated_attack_range: while deployed, position is a Position
\* and never equals "MELEE", so the second footprint is the one in use
get_rotated_attack_range(o) ==
    IF o.position = StrPos("MELEE")
    THEN {<<0, 1>>, <<0, -1>>, <<1, 0>>, <<-1, 0>>}
    ELSE {<<1, 0>>, <<2, 0>>, <<3, 0>>}

can_attack(o, target_pos) ==
    IF ~Truthy(o.position) \/ ~o.is_deployed THEN FALSE
    ELSE <<target_pos.row - o.position.row, target_pos.col - o.position.col>>
            \in get_rotated_attack_range(o)

\* the square of Position.distance_to: the search compares distances only
Distance2(p, q) ==
    (p.row - q.row) * (p.row - q.row) + (p.col - q.col) * (p.col - q.col)

\* the loop of _find_attack_target over active_enemies: best is the closest
\* enemy so far (None at first), a later enemy wins only if strictly closer
RECURSIVE closest_enemy(_, _, _, _)
closest_enemy(w, o, i, best) ==
    IF i > Len(w.gm.active_enemies) THEN best
    ELSE LET id == w.gm.active_enemies[i]
             e  == w.en[id]
             op == w.ops[o]
             better ==
                 /\ e.is_alive /\ Truthy(e.position)
                 /\ can_attack(op, e.position)
                 /\ \/ best = 0
                    \/ Distance2(op.position, e.position)
                         < Distance2(op.position, w.en[best].position)
         IN  closest_enemy(w, o, i + 1, IF better THEN id ELSE best)

\* the first alive enemy of a blocked list, 0 when there is none
RECURSIVE first_alive(_, _, _)
first_alive(w, blocked, i) ==
    IF i > Len(blocked) THEN 0
    ELSE IF w.en[blocked[i]].is_alive THEN blocked[i]
    ELSE first_alive(w, blocked, i + 1)

\* _find_attack_target: the enemy's id, 0 for None
find_attack_target(w, o) ==
    IF ~Truthy(w.ops[o].position) THEN 0
    ELSE LET b == first_alive(w, w.ops[o].blocked_enemies, 1)
         IN  IF b # 0 THEN b ELSE closest_enemy(w, o, 1, 0)

\* the first loop of _process_combat: operators attack
RECURSIVE operators_attack(_, _)
operators_attack(w, i) ==
    IF i > Len(w.gm.deployed_operators) THEN w
    ELSE LET o == w.gm.deployed_operators[i]
         IN  Bind(IF FLe(w.ops[o].attack_cooldown, FZero)
                  THEN find_attack_target(w, o) ELSE 0, LAMBDA target :
               operators_attack(
                 IF target # 0
                 THEN [w EXCEPT !.en[target] = take_damage(@, w.ops[o].atk, FALSE),
                                !.ops[o].attack_cooldown = w.ops[o].attack_interval]
                 ELSE w,
                 i + 1))

\* the second loop of _process_combat: blocked enemies attack
RECURSIVE enemies_attack(_, _)
enemies_attack(w, i) ==
    IF i > Len(w.gm.active_enemies) THEN w
    ELSE LET id == w.gm.active_enemies[i]
             e  == w.en[id]
             w1 == IF e.is_blocked /\ FLe(e.attack_cooldown, FZero)
                      /\ e.blocked_by # None
                   THEN [w EXCEPT !.ops[e.blocked_by] = take_damage(@, e.atk, FALSE),
                                  !.en[id].attack_cooldown = e.attack_interval]
                   ELSE w
         IN  enemies_attack(w1, i + 1)

process_combat(w) == enemies_attack(operators_attack(w, 1), 1)

\* a capacity test that is off by one
may_block_more_off_by_one(n, max_block_count) == n <= max_block_count

may_block_more(n, max_block_count) == n < max_block_count

\* the first loop of _process_blocking
RECURSIVE block_enemies(_, _)
block_enemies(w, i) ==
    IF i > Len(w.gm.active_enemies) THEN w
    ELSE LET id == w.gm.active_enemies[i]
             e  == w.en[id]
             tile == IF e.is_blocked \/ ~Truthy(e.position) THEN NoTile
                     ELSE get_tile_at(e.position)
             o  == IF tile = NoTile THEN None ELSE w.tiles[tile]
             w1 == IF o # None
                      /\ may_block_more(Len(w.ops[o].blocked_enemies),
                                        w.ops[o].max_block_count)
                   THEN [w EXCEPT !.en[id] = get_blocked_by(@, o),
                                  !.ops[o].blocked_enemies = Append(@, id)]
                   ELSE w
         IN  block_enemies(w1, i + 1)

RECURSIVE SelectAlive(_, _)
SelectAlive(w, s) ==
    IF s = <<>> THEN <<>>
    ELSE IF w.en[Head(s)].is_alive THEN <<Head(s)>> \o SelectAlive(w, Tail(s))
    ELSE SelectAlive(w, Tail(s))

\* the second loop: every deployed operator drops its dead enemies
RECURSIVE purge_dead_enemies(_, _)
purge_dead_enemies(w, i) ==
    IF i > Len(w.gm.deployed_operators) THEN w
    ELSE LET o == w.gm.deployed_operators[i]
         IN  purge_dead_enemies(
                 [w EXCEPT !.ops[o].blocked_enemies = SelectAlive(w, @)], i + 1)

\* the third loop: enemies of a retreated or dead operator are released
RECURSIVE release_enemies(_, _)
release_enemies(w, i) ==
    IF i > Len(w.gm.active_enemies) THEN w
    ELSE LET id == w.gm.active_enemies[i]
             e  == w.en[id]
             w1 == IF e.is_blocked /\ e.blocked_by # None
                      /\ (\/ ~InSeq(e.blocked_by, w.gm.deployed_operators)
                          \/ ~w.ops[e.blocked_by].is_alive)
                   THEN [w EXCEPT !.en[id] = release_block(@)]
                   ELSE w
         IN  release_enemies(w1, i + 1)

process_blocking(w) ==
    release_enemies(purge_dead_enemies(block_enemies(w, 1), 1), 1)

(***************************************************************************)
(* The wave scheduler (GameMap._update_waves).  cfg.waves is the level's   *)
(* wave tree; w.waves holds the state of each wave, fragment and action.   *)
(***************************************************************************)
\* an action loop that holds a spawn back while an enemy is on the field
RECURSIVE update_actions_field_empty(_, _, _, _)
update_actions_field_empty(w, k, f, i) ==
    IF i > Len(cfg.waves[k].fragments[f].actions) THEN w
    ELSE LET c  == cfg.waves[k].fragments[f].actions[i]
             a  == w.waves[k].fragments[f].actions[i]
             t  == FAdd(a.current_time, time_step)
             w1 == IF a.is_completed THEN w
                   ELSE [w EXCEPT !.waves[k].fragments[f].actions[i].current_time = t]
             w2 == IF a.is_completed \/ FLt(t, c.pre_delay) THEN w1
                   ELSE IF c.action_type = "SPAWN"
                   THEN IF a.spawned_count < c.count /\ w.gm.active_enemies = <<>>
                        THEN [spawn_enemy(w1, c.key, c.route_index) EXCEPT
                                 !.waves[k].fragments[f].actions[i].spawned_count = @ + 1,
                                 !.waves[k].fragments[f].actions[i].is_completed =
                                     IF a.spawned_count + 1 >= c.count THEN TRUE ELSE @]
                        ELSE w1
                   ELSE [w1 EXCEPT !.waves[k].fragments[f].actions[i].is_completed = TRUE]
         IN  update_actions_field_empty(w2, k, f, i + 1)

\* the loop over the actions of fragment f of wave k, from action i on
RECURSIVE update_actions(_, _, _, _)
update_actions(w, k, f, i) ==
    IF i > Len(cfg.waves[k].fragments[f].actions) THEN w
    ELSE LET c  == cfg.waves[k].fragments[f].actions[i]
             a  == w.waves[k].fragments[f].actions[i]
             t  == FAdd(a.current_time, time_step)
             w1 == IF a.is_completed THEN w
                   ELSE [w EXCEPT !.waves[k].fragments[f].actions[i].current_time = t]
             w2 == IF a.is_completed \/ FLt(t, c.pre_delay) THEN w1
                   ELSE IF c.action_type = "SPAWN"
                   THEN IF a.spawned_count < c.count
                        THEN [spawn_enemy(w1, c.key, c.route_index) EXCEPT
                                 !.waves[k].fragments[f].actions[i].spawned_count = @ + 1,
                                 !.waves[k].fragments[f].actions[i].is_completed =
                                     IF a.spawned_count + 1 >= c.count THEN TRUE ELSE @]
                        ELSE w1
                   ELSE [w1 EXCEPT !.waves[k].fragments[f].actions[i].is_completed = TRUE]
         IN  update_actions(w2, k, f, i + 1)

\* a test that is content with one completed action
AnyActionCompleted(w, k, f) ==
    \E i \in 1..Len(w.waves[k].fragments[f].actions) :
        w.waves[k].fragments[f].actions[i].is_completed

AllActionsCompleted(w, k, f) ==
    \A i \in 1..Len(w.waves[k].fragments[f].actions) :
        w.waves[k].fragments[f].actions[i].is_completed

\* the loop over the fragments of wave k, from fragment f on
RECURSIVE update_fragments(_, _, _)
update_fragments(w, k, f) ==
    IF f > Len(cfg.waves[k].fragments) THEN w
    ELSE LET fr == w.waves[k].fragments[f]
             w1 == IF ~fr.is_active
                      /\ FLe(cfg.waves[k].fragments[f].pre_delay, w.waves[k].current_time)
                   THEN [w EXCEPT !.waves[k].fragments[f].is_active = TRUE]
                   ELSE w
             w2 == IF w1.waves[k].fragments[f].is_active /\ ~fr.is_completed
                   THEN Bind(update_actions(
                                 [w1 EXCEPT !.waves[k].fragments[f].current_time =
                                                FAdd(@, time_step)], k, f, 1),
                             LAMBDA w3 :
                               IF AllActionsCompleted(w3, k, f)
                               THEN [w3 EXCEPT !.waves[k].fragments[f].is_completed = TRUE]
                               ELSE w3)
                   ELSE w1
         IN  update_fragments(w2, k, f + 1)

update_waves(w) ==
    IF w.gm.current_wave_index >= Len(cfg.waves) THEN w
    ELSE LET k  == w.gm.current_wave_index + 1
             w1 == [w EXCEPT !.waves[k].is_active = TRUE,
                             !.waves[k].current_time = FAdd(@, time_step)]
         IN  Bind(update_fragments(w1, k, 1), LAMBDA w2 :
               IF \A f \in 1..Len(w2.waves[k].fragments) :
                      w2.waves[k].fragments[f].is_completed
               THEN [w2 EXCEPT !.waves[k].is_completed = TRUE,
                               !.gm.current_wave_index = @ + 1]
               ELSE w2)

\* delta_time / cost_increase_time at the 0.1 s step (exact quotients)
CostGain(cost_increase_time) ==
    CASE cost_increase_time = FInt(1) -> F0_1
      [] cost_increase_time = F0_5 -> F0_2
      [] OTHER -> FZero

\* a regeneration that does not stop at the cap
update_cost_unbounded(w) ==
    [w EXCEPT !.gm.game_time = FAdd(@, time_step),
              !.gm.current_cost = FAdd(@, CostGain(cfg.cost_increase_time))]

update_cost(w) ==
    [w EXCEPT !.gm.game_time = FAdd(@, time_step),
              !.gm.current_cost =
                  FMin(FInt(cfg.max_cost), FAdd(@, CostGain(cfg.cost_increase_time)))]

\* a victory test that forgets the enemies still on the field
victory_condition_no_enemies(g) ==
    /\ g.current_wave_index >= Len(cfg.waves)
    /\ g.current_life_points > 0
    /\ ~g.is_defeat

\* the victory condition at the end of update
victory_condition(g) ==
    /\ g.current_wave_index >= Len(cfg.waves)
    /\ g.active_enemies = <<>>
    /\ g.current_life_points > 0
    /\ ~g.is_defeat

check_victory(w) ==
    IF victory_condition(w.gm) THEN [w EXCEPT !.gm.is_victory = TRUE] ELSE w

\* GameMap.update(delta_time) with delta_time = time_step
update(w) ==
    LET w1 == update_cost(w)
        w2 == update_operators(w1, w1.gm.deployed_operators, 1)
        w3 == update_enemies(w2, w2.gm.active_enemies, 1)
        w4 == process_combat(w3)
        w5 == process_blocking(w4)
        w6 == update_waves(w5)
    IN  check_victory(w6)

(***************************************************************************)
(* The result of a run (run_simulation, after the loop)                    *)
(***************************************************************************)
\* result["operators_deployed"]: operators stand for their names
result_operators_deployed(w) == w.gm.deployed_operators

\* the sum of action.count over the SPAWN actions a[1..n] of a fragment
RECURSIVE spawn_total_actions(_, _)
spawn_total_actions(a, n) ==
    IF n = 0 THEN 0
    ELSE spawn_total_actions(a, n - 1)
            + (IF a[n].action_type = "SPAWN" THEN a[n].count ELSE 0)

RECURSIVE spawn_total_fragments(_, _)
spawn_total_fragments(f, n) ==
    IF n = 0 THEN 0
    ELSE spawn_total_fragments(f, n - 1)
            + spawn_total_actions(f[n].actions, Len(f[n].actions))

RECURSIVE spawn_total_waves(_, _)
spawn_total_waves(wv, n) ==
    IF n = 0 THEN 0
    ELSE spawn_total_waves(wv, n - 1)
            + spawn_total_fragments(wv[n].fragments, Len(wv[n].fragments))

\* result["enemies_defeated"]: the enemies the level spawns, less the life
\* points lost
result_enemies_defeated(w) ==
    spawn_total_waves(cfg.waves, Len(cfg.waves))
        - (cfg.life_points - w.gm.current_life_points)

(***************************************************************************)
(* Routes (Route._generate_path, orthogonal step mode)                     *)
(***************************************************************************)
\* a path search that closes the row and the column distance in one step
RECURSIVE find_path_both_axes(_, _)
find_path_both_axes(current, end) ==
    IF current = end THEN <<>>
    ELSE LET Toward(a, b) == IF a < b THEN a + 1 ELSE IF a > b THEN a - 1 ELSE a
             next_pos == Position(Toward(current.row, end.row),
                                  Toward(current.col, end.col))
         IN  <<next_pos>> \o find_path_both_axes(next_pos, end)

RECURSIVE find_path(_, _)
find_path(current, end) ==
    IF current = end THEN <<>>
    ELSE LET next_pos ==
                 IF current.row < end.row THEN Position(current.row + 1, current.col)
                 ELSE IF current.row > end.row THEN Position(current.row - 1, current.col)
                 ELSE IF current.col < end.col THEN Position(current.row, current.col + 1)
                 ELSE Position(current.row, current.col - 1)
         IN  <<next_pos>> \o find_path(next_pos, end)

RECURSIVE path_through(_, _, _)
path_through(current, checkpoints, end) ==
    IF checkpoints = <<>> THEN find_path(current, end)
    ELSE find_path(current, Head(checkpoints))
            \o path_through(Head(checkpoints), Tail(checkpoints), end)

generate_path(route) ==
    <<route.start_position>>
        \o path_through(route.start_position, route.checkpoints, route.end_position)

(***************************************************************************)
(* The inputs of a run: level data, enemy table, operator configuration    *)
(***************************************************************************)
\* bounds of the model
MaxTicks == 9
MaxCommands == 3
MaxHp == 4
MaxAtk == 4
MaxDef == 4

\* BattleSimulator.max_simulation_time, 60.0 s
max_simulation_time == FInt(60)

\* a 2 x 4 grid.  mapData.map lists the top row first; row 1 is the lane
\* (tiles 4..7: start, melee-only, any, goal), row 0 lies below it
\* (tiles 0..3: none, ranged-only, any, none)
LevelLayout == << <<4, 5, 6, 7>>, <<0, 1, 2, 3>> >>

LevelTiles ==
    (0 :> "NONE") @@ (1 :> "RANGED") @@ (2 :> "ALL") @@ (3 :> "NONE") @@
    (4 :> "NONE") @@ (5 :> "MELEE") @@ (6 :> "ALL") @@ (7 :> "NONE")

LaneRoute ==
    [start_position |-> Position(1, 0), checkpoints |-> <<>>,
     end_position |-> Position(1, 3)]

\* one wave, one fragment, one SPAWN action of `count` enemies of `key`
OneWave(key, count, pre_delay) ==
    << [fragments |-> << [pre_delay |-> FZero,
                          actions |-> << [action_type |-> "SPAWN", key |-> key,
                                          count |-> count, pre_delay |-> pre_delay,
                                          route_index |-> 0] >>] >>] >>

EnemyData(max_hp, atk, def_, move_speed, attack_interval) ==
    [max_hp |-> max_hp, atk |-> atk, def_ |-> def_, mr2 |-> 0,
     move_speed |-> move_speed, attack_interval |-> attack_interval]

OperatorData(position, max_hp, atk, def_, deploy_cost, block, attack_interval, skills) ==
    [position |-> position, max_hp |-> max_hp, atk |-> atk, def_ |-> def_,
     mr2 |-> 0, deploy_cost |-> deploy_cost, max_block_count |-> block,
     attack_interval |-> attack_interval, skills |-> skills]

\* plan_positions and script_len describe the battle script: the positions
\* its DEPLOY commands may name and the number of its commands
Level(wave_data, initial_cost, max_cost, life, enemy_db, operator_db, positions, script_len) ==
    [map_layout |-> LevelLayout, tiles |-> LevelTiles,
     paths |-> <<generate_path(LaneRoute)>>, waves |-> wave_data,
     character_limit |-> 3, initial_cost |-> initial_cost, max_cost |-> max_cost,
     cost_increase_time |-> FInt(1), life_points |-> life,
     enemy_db |-> enemy_db, operators |-> operator_db,
     plan_positions |-> positions, script_len |-> script_len]

(***************************************************************************)
(* Construction: GameMap.__init__, setup_stage, setup_operators            *)
(***************************************************************************)
\* Skill.__init__ on the data of the current level of the skill
NewSkill(skill_type, duration_type, duration, sp_cost, init_sp) ==
    [skill_type |-> skill_type, duration_type |-> duration_type,
     duration |-> duration, ammo |-> 0, sp_type |-> "INCREASE_WITH_TIME",
     sp_cost |-> FInt(sp_cost), max_charge_time |-> 1, increment |-> FInt(1),
     current_sp |-> FInt(init_sp), charge_count |-> 0, is_active |-> FALSE,
     remaining_duration |-> FZero, remaining_ammo |-> 0]

NewOperator(d) ==
    [position |-> StrPos(d.position), direction |-> "RIGHT",
     is_deployed |-> FALSE, is_alive |-> TRUE,
     max_hp |-> d.max_hp, current_hp |-> d.max_hp, atk |-> d.atk, def_ |-> d.def_,
     mr2 |-> d.mr2, deploy_cost |-> d.deploy_cost,
     max_block_count |-> d.max_block_count, blocked_enemies |-> <<>>,
     attack_cooldown |-> FZero, attack_interval |-> d.attack_interval,
     deploy_time |-> FZero, skills |-> d.skills]

NewWaves(c) ==
    [k \in 1..Len(c.waves) |->
        [is_active |-> FALSE, is_completed |-> FALSE, current_time |-> FZero,
         fragments |->
            [f \in 1..Len(c.waves[k].fragments) |->
                [is_active |-> FALSE, is_completed |-> FALSE, current_time |-> FZero,
                 actions |->
                    [i \in 1..Len(c.waves[k].fragments[f].actions) |->
                        [is_completed |-> FALSE, spawned_count |-> 0,
                         current_time |-> FZero]]]]]]

NoCall == <<>>

InitWorld(c) ==
    /\ cfg = c
    /\ gm = [current_cost |-> FInt(c.initial_cost),
             current_life_points |-> c.life_points,
             deployed_operators |-> <<>>, active_enemies |-> <<>>,
             current_wave_index |-> 0, game_time |-> FZero,
             is_victory |-> FALSE, is_defeat |-> FALSE]
    /\ tiles = [t \in DOMAIN c.tiles |-> None]
    /\ operators = [o \in DOMAIN c.operators |-> NewOperator(c.operators[o])]
    /\ enemies = <<>>
    /\ waves = NewWaves(c)
    /\ sim = [current_time |-> FZero, ticks |-> 0, commands |-> 0,
              finished |-> FALSE, reason |-> "", after_update |-> FALSE]
    /\ last = [type |-> "", operator |-> "", position |-> NonePos,
               skill_index |-> 0, success |-> FALSE, reason |-> "", n |-> 0,
               tick |-> 0]

(***************************************************************************)
(* The run loop (BattleSimulator.run_simulation): script commands that     *)
(* are due, then GameMap.update, then the terminal checks.  The script is  *)
(* any list of at most MaxCommands commands with any trigger times, so a   *)
(* command may fall due before any tick.                                   *)
(***************************************************************************)
World == [gm |-> gm, tiles |-> tiles, ops |-> operators, en |-> enemies,
          waves |-> waves]

SetWorld(w) ==
    /\ gm' = w.gm
    /\ tiles' = w.tiles
    /\ operators' = w.ops
    /\ enemies' = w.en
    /\ waves' = w.waves

CommandDue == ~sim.finished /\ sim.commands < cfg.script_len

\* the log entry of a command
Logged(type, o, p, skill_index, r) ==
    [type |-> type, operator |-> o, position |-> p, skill_index |-> skill_index,
     success |-> r.success, reason |-> r.reason, n |-> last.n + 1,
     tick |-> sim.ticks]

CommandDone == sim' = [sim EXCEPT !.commands = @ + 1, !.after_update = FALSE]

Directions == {"RIGHT"}

\* _execute_deploy
ExecuteDeploy ==
    \E o \in DOMAIN operators, p \in cfg.plan_positions, d \in Directions :
        /\ CommandDue
        /\ Bind(deploy_operator(World, o, p, d), LAMBDA r :
              /\ SetWorld(r.w)
              /\ last' = Logged("DEPLOY", o, p, 0, r))
        /\ CommandDone
        /\ UNCHANGED <<cfg, arg, ret>>

\* _execute_retreat
ExecuteRetreat ==
    \E o \in DOMAIN operators :
        /\ CommandDue
        /\ Bind(retreat_operator(World, o), LAMBDA r :
              /\ SetWorld(r.w)
              /\ last' = Logged("RETREAT", o, NonePos, 0, r))
        /\ CommandDone
        /\ UNCHANGED <<cfg, arg, ret>>

\* _execute_activate_skill
ExecuteActivateSkill ==
    \E o \in DOMAIN operators, skill_index \in 0..1 :
        /\ CommandDue
        /\ Bind(IF ~operators[o].is_deployed
                THEN [o |-> operators[o], success |-> FALSE,
                      reason |-> "not_deployed"]
                ELSE activate_skill_by_index(operators[o], skill_index), LAMBDA r :
              /\ operators' = [operators EXCEPT ![o] = r.o]
              /\ last' = Logged("ACTIVATE_SKILL", o, NonePos, skill_index, r))
        /\ CommandDone
        /\ UNCHANGED <<cfg, gm, tiles, enemies, waves, arg, ret>>

\* one iteration of the while loop after its commands: update, advance the
\* clock, stop on victory or defeat
LoopIteration ==
    /\ ~sim.finished
    /\ FLt(sim.current_time, max_simulation_time)
    /\ SetWorld(update(World))
    /\ sim' = [sim EXCEPT
                 !.current_time = FAdd(@, time_step),
                 !.ticks = @ + 1,
                 !.after_update = TRUE,
                 !.finished = gm'.is_victory \/ gm'.is_defeat,
                 !.reason = IF gm'.is_victory THEN "victory"
                            ELSE IF gm'.is_defeat THEN "defeat" ELSE @]
    /\ UNCHANGED <<cfg, last, arg, ret>>

\* the iteration, for the first MaxTicks ticks of a run
Tick == sim.ticks < MaxTicks /\ LoopIteration

\* the else clause of the while loop: the clock has reached the time limit
\* and neither victory nor defeat has ended the loop
Timeout ==
    /\ ~sim.finished
    /\ ~FLt(sim.current_time, max_simulation_time)
    /\ sim' = [sim EXCEPT !.finished = TRUE, !.reason = "timeout",
                          !.after_update = FALSE]
    /\ UNCHANGED <<cfg, gm, tiles, operators, enemies, waves, last, arg, ret>>

(***************************************************************************)
(* Spec: the battle world under any script of deploy and retreat commands  *)
(***************************************************************************)
\* enemies that cross one tile per tick; operators that strike every 0.3 s
FastEnemies == ("runner" :> EnemyData(2, 2, 0, FInt(10), F0_2))

Squad ==
    ("o1" :> OperatorData("MELEE", 3, 1, 0, 1, 1, F0_3, <<>>)) @@
    ("o2" :> OperatorData("RANGED", 2, 2, 0, 3, 1, F0_3, <<>>))

\* lane tiles, the ranged tile below the lane, the start tile (not
\* buildable) and two positions off the grid
PlanPositions ==
    {Position(1, 1), Position(1, 2), Position(0, 1), Position(1, 0),
     Position(2, 1), Position(0, 0 - 1)}

LifeChoices == {0, 1, 2}

CostChoices == {2, 5}

Init ==
    \E life \in LifeChoices, cost \in CostChoices :
        /\ InitWorld(Level(OneWave("runner", 2, FZero), cost, 6, life,
                           FastEnemies, Squad, PlanPositions, MaxCommands))
        /\ arg = NoCall
        /\ ret = NoCall

Next == ExecuteDeploy \/ ExecuteRetreat \/ Tick

Spec == Init /\ [][Next]_vars

(***************************************************************************)
(* DamageSpec: GameEntity.take_damage applied on its own.  arg is the hit  *)
(* (damage, is_arts), ret the entity that takes it, with the number of     *)
(* hits it has taken.                                                      *)
(***************************************************************************)
Hits == [damage : 0..MaxAtk, is_arts : BOOLEAN]

Targets == [current_hp : 1..MaxHp, def_ : 0..MaxDef, mr2 : 0..2,
            is_alive : {TRUE}, hits : {0}]

DamageInit ==
    /\ InitWorld(Level(<<>>, 0, 0, 1, FastEnemies, Squad, {}, 0))
    /\ arg \in Hits
    /\ ret \in Targets

TakeDamage ==
    /\ ret.hits < MaxHp
    /\ ret' = [take_damage(ret, arg.damage, arg.is_arts) EXCEPT !.hits = @ + 1]
    /\ UNCHANGED <<cfg, gm, tiles, operators, enemies, waves, sim, last, arg>>

DamageNext == TakeDamage

DamageSpec == DamageInit /\ [][DamageNext]_vars

(***************************************************************************)
(* SkillSpec: one operator with one timed skill, manual or automatic, of   *)
(* duration 0.3 s or 0.5 s, ready from the start; the script deploys the   *)
(* operator and activates the skill at any times.  The only wave starts    *)
(* after the time limit, so the run lasts.                                 *)
(***************************************************************************)
SkillTypes == {"MANUAL", "AUTO"}

Durations == {F0_3, F0_5}

Caster(skill_type, duration) ==
    ("o1" :> OperatorData("MELEE", 3, 1, 0, 1, 1, F0_3,
                          <<NewSkill(skill_type, "SECONDS", duration, 1, 1)>>))

SkillInit ==
    \E skill_type \in SkillTypes, duration \in Durations :
        /\ InitWorld(Level(OneWave("runner", 1, max_simulation_time), 5, 6, 1,
                           FastEnemies, Caster(skill_type, duration),
                           {Position(1, 1), Position(1, 2)}, MaxCommands))
        /\ arg = NoCall
        /\ ret = NoCall

SkillNext == ExecuteDeploy \/ ExecuteActivateSkill \/ Tick

SkillSpec == SkillInit /\ [][SkillNext]_vars

(***************************************************************************)
(* BlockSpec: one route, one wave of a single enemy, one melee operator of *)
(* block capacity 1; the script is one DEPLOY of that operator on a lane   *)
(* tile, at any time.                                                      *)
(***************************************************************************)
Guard == ("o1" :> OperatorData("MELEE", 3, 1, 0, 1, 1, F0_3, <<>>))

Walker(max_hp, atk) == ("walker" :> EnemyData(max_hp, atk, 0, FInt(10), F0_2))

BlockInit ==
    \E max_hp \in {1, 2}, atk \in {1, 3}, life \in {1, 2} :
        /\ InitWorld(Level(OneWave("walker", 1, FZero), 5, 6, life,
                           Walker(max_hp, atk), Guard,
                           {Position(1, 1), Position(1, 2)}, 1))
        /\ arg = NoCall
        /\ ret = NoCall

BlockNext == ExecuteDeploy \/ Tick

BlockSpec == BlockInit /\ [][BlockNext]_vars

(***************************************************************************)
(* RouteSpec: Route._generate_path applied on its own to a route with      *)
(* diagonal movement disabled.  arg is the route (start, checkpoints, end, *)
(* any positions of a 3 x 3 grid, repeated or not), ret the path.          *)
(***************************************************************************)
MaxCheckpoints == 2

RoutePositions == {Position(row, col) : row \in 0..2, col \in 0..2}

CheckpointLists ==
    UNION {[1..n -> RoutePositions] : n \in 0..MaxCheckpoints}

Routes ==
    [start_position : RoutePositions, checkpoints : CheckpointLists,
     end_position : RoutePositions]

RouteInit ==
    /\ InitWorld(Level(<<>>, 0, 0, 1, FastEnemies, Squad, {}, 0))
    /\ arg \in Routes
    /\ ret = NoCall

GeneratePath ==
    /\ ret = NoCall
    /\ ret' = generate_path(arg)
    /\ UNCHANGED <<cfg, gm, tiles, operators, enemies, waves, sim, last, arg>>

RouteNext == GeneratePath

RouteSpec == RouteInit /\ [][RouteNext]_vars

(***************************************************************************)
(* PlanSpec: a run of run_simulation on a battle plan given as data.  arg  *)
(* is the plan: the list of its actions as written in the file until       *)
(* load_battle_plan has run, the BattlePlan's sorted list of BattleAction  *)
(* objects afterwards, and with them the calls of _execute_action made so  *)
(* far (the action's place in the file, the clock and the number of        *)
(* updates done when it ran).                                              *)
(***************************************************************************)
ActionTypes == {"DEPLOY", "RETREAT", "ACTIVATE_SKILL", "PAUSE", "SPEED_UP", "END"}

\* the data of one action of a plan file (position NonePos: no "position" key)
ActionData(type, time, operator_id, position, skill_index) ==
    [type |-> type, time |-> time, operator_id |-> operator_id,
     position |-> position, skill_index |-> skill_index]

\* the actions a plan may list: well-formed ones, one for an operator the
\* plan does not configure, a DEPLOY without a position, skill indices that
\* are not an index of the operator's only skill, a type that has no
\* handler and a type that ActionType does not know
PlanActions ==
    {ActionData("DEPLOY", FZero, "o1", Position(1, 1), 0),
     ActionData("DEPLOY", F0_1, "o1", Position(1, 2), 0),
     ActionData("RETREAT", F0_1, "o1", NonePos, 0),
     ActionData("ACTIVATE_SKILL", F0_3, "o1", NonePos, 0),
     ActionData("ACTIVATE_SKILL", F0_1, "o1", NonePos, 1),
     ActionData("ACTIVATE_SKILL", F0_3, "o1", NonePos, 0 - 1),
     ActionData("ACTIVATE_SKILL", F0_2, "o1", NonePos, 0 - 2),
     ActionData("DEPLOY", FZero, "ghost", Position(1, 2), 0),
     ActionData("DEPLOY", FZero, "o1", NonePos, 0),
     ActionData("PAUSE", F0_3, "", NonePos, 0),
     ActionData("DANCE", F0_1, "o1", NonePos, 0)}

\* BattleAction.__init__: id is the place of the action in the file
BattleAction(d, id) ==
    [id |-> id, action_type |-> d.type, time |-> d.time,
     operator_id |-> d.operator_id, position |-> d.position,
     skill_index |-> d.skill_index, is_executed |-> FALSE]

\* a sort that is not stable: a goes in front of the actions of its own time
RECURSIVE insert_before_equal(_, _)
insert_before_equal(s, a) ==
    IF s = <<>> THEN <<a>>
    ELSE IF FLe(a.time, Head(s).time) THEN <<a>> \o s
    ELSE <<Head(s)>> \o insert_before_equal(Tail(s), a)

\* list.sort(key = time), a stable sort: a goes behind every action of the
\* sorted list s whose time is not greater than its own
RECURSIVE insert_by_time(_, _)
insert_by_time(s, a) ==
    IF s = <<>> THEN <<a>>
    ELSE IF FLt(a.time, Head(s).time) THEN <<a>> \o s
    ELSE <<Head(s)>> \o insert_by_time(Tail(s), a)

RECURSIVE sort_by_time(_, _)
sort_by_time(actions, n) ==
    IF n = 0 THEN <<>>
    ELSE insert_by_time(sort_by_time(actions, n - 1), actions[n])

\* load_battle_plan: ActionType(...) raises on an unknown type, the plan is
\* not loaded
load_battle_plan(data) ==
    IF \E i \in 1..Len(data) : data[i].type \notin ActionTypes
    THEN [loaded |-> FALSE, failed |-> TRUE, actions |-> <<>>, calls |-> <<>>]
    ELSE [loaded |-> TRUE, failed |-> FALSE, calls |-> <<>>,
          actions |-> sort_by_time([i \in 1..Len(data) |-> BattleAction(data[i], i)],
                                   Len(data))]

\* _execute_action and the handler it calls
execute_action(w, a) ==
    IF a.action_type \notin {"DEPLOY", "RETREAT", "ACTIVATE_SKILL"}
    THEN Result(w, FALSE, "no_handler")
    ELSE IF a.operator_id \notin DOMAIN w.ops
    THEN Result(w, FALSE, "unknown_operator")
    ELSE IF a.action_type = "DEPLOY"
    THEN IF ~Truthy(a.position) THEN Result(w, FALSE, "no_position")
         ELSE deploy_operator(w, a.operator_id, a.position, "RIGHT")
    ELSE IF a.action_type = "RETREAT"
    THEN retreat_operator(w, a.operator_id)
    ELSE IF ~w.ops[a.operator_id].is_deployed
    THEN Result(w, FALSE, "not_deployed")
    ELSE Bind(activate_skill_by_index(w.ops[a.operator_id], a.skill_index), LAMBDA r :
             Result([w EXCEPT !.ops[a.operator_id] = r.o], r.success, r.reason))

PlanInit ==
    /\ InitWorld(Level(OneWave("runner", 1, FZero), 5, 6, 1, FastEnemies,
                       Caster("MANUAL", F0_3), {}, 0))
    /\ arg \in [loaded : {FALSE}, failed : {FALSE}, calls : {<<>>},
                actions : [1..MaxCommands -> PlanActions]]
    /\ ret = NoCall

\* the start of run_simulation: the plan is loaded, or the run is over
LoadBattlePlan ==
    /\ ~arg.loaded /\ ~arg.failed
    /\ arg' = load_battle_plan(arg.actions)
    /\ sim' = IF arg'.failed
              THEN [sim EXCEPT !.finished = TRUE, !.reason = "load_failed"]
              ELSE sim
    /\ UNCHANGED <<cfg, gm, tiles, operators, enemies, waves, last, ret>>

\* a test that reads the clock of the run in progress, whatever run asks
action_due_ambient(actions, action_index, current_time) ==
    /\ action_index < Len(actions)
    /\ FLe(actions[action_index + 1].time, sim.current_time)
    /\ ~actions[action_index + 1].is_executed

\* the condition of the while loop of _execute_actions_at_time
action_due(actions, action_index, current_time) ==
    /\ action_index < Len(actions)
    /\ FLe(actions[action_index + 1].time, current_time)
    /\ ~actions[action_index + 1].is_executed

ActionDue == action_due(arg.actions, sim.commands, sim.current_time)

\* one iteration of that loop; an exception raised by the handler leaves
\* the loop and the run (the except clause of run_simulation)
ExecuteAction ==
    /\ arg.loaded /\ ~sim.finished
    /\ FLt(sim.current_time, max_simulation_time)
    /\ ActionDue
    /\ Bind(arg.actions[sim.commands + 1], LAMBDA a :
         Bind(execute_action(World, a), LAMBDA r :
            IF r.reason = "IndexError"
            THEN /\ sim' = [sim EXCEPT !.finished = TRUE, !.reason = "exception",
                                       !.after_update = FALSE]
                 /\ UNCHANGED <<gm, tiles, operators, enemies, waves, last, arg, ret>>
            ELSE /\ SetWorld(r.w)
                 /\ last' = Logged(a.action_type, a.operator_id, a.position,
                                   a.skill_index, r)
                 /\ arg' = [arg EXCEPT
                               !.actions[sim.commands + 1].is_executed = TRUE,
                               !.calls = Append(@, [id |-> a.id,
                                                    time |-> sim.current_time,
                                                    tick |-> sim.ticks])]
                 /\ CommandDone
                 /\ UNCHANGED ret))
    /\ UNCHANGED cfg

\* the rest of the iteration of the run loop, once no action is due
PlanTick == arg.loaded /\ ~ActionDue /\ Tick

PlanNext == LoadBattlePlan \/ ExecuteAction \/ PlanTick

PlanSpec == PlanInit /\ [][PlanNext]_vars

(***************************************************************************)
(* LimitSpec: whole runs, up to the time limit of 60 s.  One enemy, fast   *)
(* or slow, in a wave that starts at once or only at the time limit; 0, 1  *)
(* or 2 life points; a plan that is empty, deploys the operator in the     *)
(* lane, or deploys it and then names a skill index below -len.            *)
(***************************************************************************)
LimitPlans ==
    {<<>>,
     <<ActionData("DEPLOY", FZero, "o1", Position(1, 1), 0)>>,
     <<ActionData("DEPLOY", FZero, "o1", Position(1, 1), 0),
       ActionData("ACTIVATE_SKILL", F0_2, "o1", NonePos, 0 - 2)>>}

Strollers ==
    ("runner" :> EnemyData(2, 2, 0, FInt(10), F0_2)) @@
    ("stroller" :> EnemyData(2, 1, 0, FInt(1), F0_5))

LimitInit ==
    \E key \in DOMAIN Strollers, pre_delay \in {FZero, max_simulation_time},
       life \in LifeChoices :
        /\ InitWorld(Level(OneWave(key, 1, pre_delay), 5, 6, life, Strollers,
                           Caster("MANUAL", F0_3), {}, 0))
        /\ arg \in [loaded : {FALSE}, failed : {FALSE}, calls : {<<>>},
                    actions : LimitPlans]
        /\ ret = NoCall

\* the rest of an iteration of the run loop, once no action is due
RunIteration == arg.loaded /\ ~ActionDue /\ LoopIteration

RunTimeout == arg.loaded /\ Timeout

LimitNext == LoadBattlePlan \/ ExecuteAction \/ RunIteration \/ RunTimeout

LimitSpec == LimitInit /\ [][LimitNext]_vars

(***************************************************************************)
(* TwinSpec: two runs of the same input.  The first is the run of          *)
(* PlanSpec; ret is the second, kept as one record (world, loop state,     *)
(* last command, plan) and advanced by run_step, which is run_simulation   *)
(* written as a function of that record.  The two runs advance in any      *)
(* interleaving.                                                           *)
(***************************************************************************)
TwinActions ==
    {ActionData("DEPLOY", FZero, "o1", Position(1, 1), 0),
     ActionData("DEPLOY", F0_1, "o1", Position(1, 2), 0),
     ActionData("RETREAT", F0_1, "o1", NonePos, 0),
     ActionData("ACTIVATE_SKILL", F0_3, "o1", NonePos, 0)}

\* the state of a run as one record
RunState == [w |-> World, sim |-> sim, last |-> last, plan |-> arg]

\* load_battle_plan at the start of run_simulation
load_step(r) ==
    Bind(load_battle_plan(r.plan.actions), LAMBDA plan :
        [r EXCEPT !.plan = plan,
                  !.sim = IF plan.failed
                          THEN [@ EXCEPT !.finished = TRUE, !.reason = "load_failed"]
                          ELSE @])

\* one iteration of the loop of _execute_actions_at_time
action_step(r) ==
    Bind(r.plan.actions[r.sim.commands + 1], LAMBDA a :
      Bind(execute_action(r.w, a), LAMBDA res :
        IF res.reason = "IndexError"
        THEN [r EXCEPT !.sim = [@ EXCEPT !.finished = TRUE, !.reason = "exception",
                                         !.after_update = FALSE]]
        ELSE [r EXCEPT
                !.w = res.w,
                !.last = [type |-> a.action_type, operator |-> a.operator_id,
                          position |-> a.position, skill_index |-> a.skill_index,
                          success |-> res.success, reason |-> res.reason,
                          n |-> r.last.n + 1, tick |-> r.sim.ticks],
                !.plan = [@ EXCEPT
                            !.actions[r.sim.commands + 1].is_executed = TRUE,
                            !.calls = Append(@, [id |-> a.id,
                                                 time |-> r.sim.current_time,
                                                 tick |-> r.sim.ticks])],
                !.sim = [@ EXCEPT !.commands = @ + 1, !.after_update = FALSE]]))

\* GameMap.update, the clock and the two terminal tests
tick_step(r) ==
    Bind(update(r.w), LAMBDA w :
        [r EXCEPT !.w = w,
                  !.sim = [@ EXCEPT
                             !.current_time = FAdd(@, time_step),
                             !.ticks = @ + 1,
                             !.after_update = TRUE,
                             !.finished = w.gm.is_victory \/ w.gm.is_defeat,
                             !.reason = IF w.gm.is_victory THEN "victory"
                                        ELSE IF w.gm.is_defeat THEN "defeat"
                                        ELSE @]])

\* the next step of a run, for the first MaxTicks ticks; a run that is over
\* stays as it is
run_step(r) ==
    IF ~r.plan.loaded /\ ~r.plan.failed THEN load_step(r)
    ELSE IF r.sim.finished \/ ~FLt(r.sim.current_time, max_simulation_time) THEN r
    ELSE IF action_due(r.plan.actions, r.sim.commands, r.sim.current_time)
    THEN action_step(r)
    ELSE IF r.sim.ticks < MaxTicks THEN tick_step(r)
    ELSE r

TwinInit ==
    /\ InitWorld(Level(OneWave("runner", 1, FZero), 5, 6, 1, FastEnemies,
                       Caster("MANUAL", F0_3), {}, 0))
    /\ arg \in [loaded : {FALSE}, failed : {FALSE}, calls : {<<>>},
                actions : [1..MaxCommands -> TwinActions]]
    /\ ret = RunState

\* a step of the second run
TwinStep ==
    /\ run_step(ret) # ret
    /\ ret' = run_step(ret)
    /\ UNCHANGED <<cfg, gm, tiles, operators, enemies, waves, sim, last, arg>>

TwinNext == LoadBattlePlan \/ ExecuteAction \/ PlanTick \/ TwinStep

TwinSpec == TwinInit /\ [][TwinNext]_vars

(***************************************************************************)
(* CostSpec: the deployment economy.  The cost cap is 1 or 2, the initial  *)
(* cost anything from 0 to the cap, the operators cost 1 and 2; no enemy   *)
(* arrives before the time limit.  The script is any list of deploy and    *)
(* retreat commands.                                                       *)
(***************************************************************************)
Payroll ==
    ("o1" :> OperatorData("MELEE", 3, 1, 0, 1, 1, F0_3, <<>>)) @@
    ("o2" :> OperatorData("RANGED", 2, 2, 0, 2, 1, F0_3, <<>>))

CostInit ==
    \E max_cost \in {1, 2} : \E initial_cost \in 0..max_cost :
        /\ InitWorld(Level(OneWave("runner", 1, max_simulation_time),
                           initial_cost, max_cost, 1, FastEnemies, Payroll,
                           {Position(1, 2), Position(0, 1)}, MaxCommands))
        /\ arg = NoCall
        /\ ret = NoCall

CostNext == ExecuteDeploy \/ ExecuteRetreat \/ Tick

CostSpec == CostInit /\ [][CostNext]_vars

\* the scheduler run on its own for n ticks from the state after
\* construction: n calls of _update_waves and nothing else
RECURSIVE schedule(_)
schedule(n) ==
    IF n = 0
    THEN [World EXCEPT !.gm.current_wave_index = 0, !.gm.active_enemies = <<>>,
                       !.en = <<>>, !.waves = NewWaves(cfg)]
    ELSE update_waves(schedule(n - 1))

\* the enemies created so far, in order of creation, as <<key, route>>
SpawnList(en) == [j \in 1..Len(en) |-> <<en[j].key, en[j].route>>]

(***************************************************************************)
(* WaveSpec: the wave scheduler on a family of wave trees: waves without   *)
(* fragments, fragments without actions, delayed fragments and actions,    *)
(* an action that is no SPAWN, a SPAWN of no enemy, of an enemy the        *)
(* database does not know, and on a route the level does not have.  One    *)
(* operator may be deployed on the lane at any moment, so that enemies are *)
(* blocked, killed, or kill the operator.                                  *)
(***************************************************************************)
MaxWaveTicks == 12

SpawnAction(key, count, pre_delay, route_index) ==
    [action_type |-> "SPAWN", key |-> key, count |-> count,
     pre_delay |-> pre_delay, route_index |-> route_index]

StoryAction ==
    [action_type |-> "STORY", key |-> "", count |-> 1, pre_delay |-> FZero,
     route_index |-> 0]

Fragment(pre_delay, actions) == [pre_delay |-> pre_delay, actions |-> actions]

FragmentChoices ==
    {Fragment(FZero, <<SpawnAction("runner", 2, FZero, 0)>>),
     Fragment(F0_2, <<SpawnAction("runner", 1, F0_2, 0)>>),
     Fragment(FZero, <<>>),
     Fragment(F0_2, <<>>),
     Fragment(FZero, <<StoryAction, SpawnAction("runner", 1, F0_1, 0)>>),
     Fragment(FZero, <<SpawnAction("runner", 0, FZero, 0)>>),
     Fragment(FZero, <<SpawnAction("ghost", 1, FZero, 0)>>),
     Fragment(FZero, <<SpawnAction("runner", 1, FZero, 1)>>)}

WaveOf(fragments) == [fragments |-> fragments]

ShortWaves == {WaveOf(<<>>)} \cup {WaveOf(<<f>>) : f \in FragmentChoices}

WaveChoices ==
    ShortWaves \cup {WaveOf(<<f, g>>) : f \in FragmentChoices, g \in FragmentChoices}

WaveTrees ==
    {<<>>} \cup {<<v>> : v \in WaveChoices}
           \cup {<<u, v>> : u \in ShortWaves, v \in ShortWaves}

Vanguard == ("o1" :> OperatorData("MELEE", 3, 1, 0, 1, 1, F0_3, <<>>))

WaveInit ==
    \E tree \in WaveTrees, life \in {2, 9} :
        /\ InitWorld(Level(tree, 5, 6, life, FastEnemies, Vanguard,
                           {Position(1, 2)}, 1))
        /\ arg = NoCall
        /\ ret = NoCall

WaveTick == sim.ticks < MaxWaveTicks /\ LoopIteration

WaveNext == ExecuteDeploy \/ WaveTick

WaveSpec == WaveInit /\ [][WaveNext]_vars

(***************************************************************************)
(* WaveRunSpec: whole runs of the scheduler, up to victory or to the time *)
(* limit of the run, with no operator and life points to spare.  A run is  *)
(* finite: it ends by victory or, after 600 ticks, by the time limit.      *)
(***************************************************************************)
RunTrees ==
    {<<>>} \cup {<<v>> : v \in ShortWaves}
           \cup {<<u, v>> : u \in ShortWaves, v \in ShortWaves}

WaveRunInit ==
    \E tree \in RunTrees :
        /\ InitWorld(Level(tree, 5, 6, 9, FastEnemies, Vanguard, {}, 0))
        /\ arg = NoCall
        /\ ret = NoCall

WaveRunNext == LoopIteration \/ Timeout

WaveRunSpec == WaveRunInit /\ [][WaveRunNext]_vars

(***************************************************************************)
(* CastSpec: one operator with one skill of any trigger type (manual,      *)
(* automatic, passive) and duration type (timed, ammo, instantaneous),     *)
(* single-pool or with two charges, of SP cost 1, starting at 0 or 1 SP    *)
(* and gaining 0.5 SP per tick.  The script deploys the operator and       *)
(* activates the skill at any times; the only wave starts after the time   *)
(* limit.                                                                  *)
(***************************************************************************)
\* Skill.__init__ on a SkillLevel: current_sp = init_sp, no charge banked
SkillOf(skill_type, duration_type, sp_type, max_charge_time, init_sp) ==
    [skill_type |-> skill_type, duration_type |-> duration_type,
     duration |-> F0_3, ammo |-> 2, sp_type |-> sp_type,
     sp_cost |-> FInt(1), max_charge_time |-> max_charge_time,
     increment |-> FInt(5), current_sp |-> FInt(init_sp), charge_count |-> 0,
     is_active |-> FALSE, remaining_duration |-> FZero, remaining_ammo |-> 0]

TriggerTypes == {"MANUAL", "AUTO", "PASSIVE"}

DurationTypes == {"SECONDS", "AMMO", "NONE"}

CasterOf(skill) ==
    ("o1" :> OperatorData("MELEE", 3, 1, 0, 1, 1, F0_3, <<skill>>))

CastInit ==
    \E skill_type \in TriggerTypes, duration_type \in DurationTypes,
       max_charge_time \in {1, 2}, init_sp \in {0, 1} :
        /\ InitWorld(Level(OneWave("runner", 1, max_simulation_time), 5, 6, 1,
                           FastEnemies,
                           CasterOf(SkillOf(skill_type, duration_type,
                                            "INCREASE_WITH_TIME",
                                            max_charge_time, init_sp)),
                           {Position(1, 1)}, MaxCommands))
        /\ arg = NoCall
        /\ ret = NoCall

CastNext == ExecuteDeploy \/ ExecuteActivateSkill \/ Tick

CastSpec == CastInit /\ [][CastNext]_vars

(***************************************************************************)
(* AccrualSpec: one operator whose skill gains SP on attack or on damage   *)
(* (cost 1, increment 5, manual or automatic, single-pool or with two      *)
(* charges, starting at 0 or 1 SP), deployed on the lane and retreated at  *)
(* any moment against a wave of two enemies, so that it strikes them and   *)
(* is struck.                                                              *)
(***************************************************************************)
SpTypes == {"INCREASE_WHEN_ATTACK", "INCREASE_WHEN_TAKEN_DAMAGE"}

AccrualInit ==
    \E sp_type \in SpTypes, skill_type \in SkillTypes, max_charge_time \in {1, 2},
       init_sp \in {0, 1} :
        /\ InitWorld(Level(OneWave("runner", 2, FZero), 5, 6, 9, FastEnemies,
                           CasterOf(SkillOf(skill_type, "SECONDS", sp_type,
                                            max_charge_time, init_sp)),
                           {Position(1, 1), Position(1, 2)}, MaxCommands))
        /\ arg = NoCall
        /\ ret = NoCall

AccrualNext == ExecuteDeploy \/ ExecuteRetreat \/ ExecuteActivateSkill \/ Tick

AccrualSpec == AccrualInit /\ [][AccrualNext]_vars

(***************************************************************************)
(* AmmoSpec: one operator with an ammo-limited skill of two rounds         *)
(* (manual or automatic, cost 1, starting at 0 or 1 SP), deployed on the   *)
(* lane at any moment against a wave of two enemies; the script activates  *)
(* the skill at any times.                                                 *)
(***************************************************************************)
AmmoInit ==
    \E skill_type \in SkillTypes, init_sp \in {0, 1} :
        /\ InitWorld(Level(OneWave("runner", 2, FZero), 5, 6, 9, FastEnemies,
                           CasterOf(SkillOf(skill_type, "AMMO", "INCREASE_WITH_TIME",
                                            1, init_sp)),
                           {Position(1, 1), Position(1, 2)}, MaxCommands))
        /\ arg = NoCall
        /\ ret = NoCall

AmmoNext == ExecuteDeploy \/ ExecuteActivateSkill \/ Tick

AmmoSpec == AmmoInit /\ [][AmmoNext]_vars

(***************************************************************************)
(* RangeSpec: operators deployed with any facing on the lane or on the     *)
(* tile above it, against a wave of two enemies.                           *)
(***************************************************************************)
\* the names of Direction
Facings == {"RIGHT", "DOWN", "LEFT", "UP"}

\* _execute_deploy of a DEPLOY command with a direction
ExecuteDeployFacing ==
    \E o \in DOMAIN operators, p \in cfg.plan_positions, d \in Facings :
        /\ CommandDue
        /\ Bind(deploy_operator(World, o, p, d), LAMBDA r :
              /\ SetWorld(r.w)
              /\ last' = Logged("DEPLOY", o, p, 0, r))
        /\ CommandDone
        /\ UNCHANGED <<cfg, arg, ret>>

RangeInit ==
    /\ InitWorld(Level(OneWave("runner", 2, FZero), 5, 6, 9, FastEnemies, Squad,
                       {Position(0, 2), Position(1, 2)}, 2))
    /\ arg = NoCall
    /\ ret = NoCall

RangeNext == ExecuteDeployFacing \/ Tick

RangeSpec == RangeInit /\ [][RangeNext]_vars

(***************************************************************************)
(* MarchSpec: whole runs of one or two enemies on a level with one route:  *)
(* the lane, the lane by way of a checkpoint above it, or a route whose    *)
(* start is its end.  No operator is deployed; the run ends by victory or  *)
(* by the time limit.                                                      *)
(***************************************************************************)
MarchRoutes ==
    {LaneRoute,
     [start_position |-> Position(1, 0), checkpoints |-> <<Position(0, 1)>>,
      end_position |-> Position(1, 3)],
     [start_position |-> Position(1, 0), checkpoints |-> <<>>,
      end_position |-> Position(1, 0)]}

MarchInit ==
    \E route \in MarchRoutes, count \in {1, 2}, key \in DOMAIN Strollers :
        /\ InitWorld([Level(OneWave(key, count, FZero), 5, 6, 9, Strollers,
                            Squad, {}, 0)
                         EXCEPT !.paths = <<generate_path(route)>>])
        /\ arg = NoCall
        /\ ret = NoCall

MarchNext == LoopIteration \/ Timeout

MarchSpec == MarchInit /\ [][MarchNext]_vars

(***************************************************************************)
(* Properties of deployment                                                *)
(***************************************************************************)
\* C1: can_deploy_at and deploy_operator agree on tile validity.  Whenever a
\* DEPLOY command runs, for whatever operator and position (on or off the
\* grid): if can_deploy_at was false in the state before, the deploy fails;
\* if it was true, the deploy succeeds or fails for insufficient cost or a
\* full roster, never for bounds, tile class or occupancy.
C1_DeployAgreesWithCanDeploy ==
    [][(last'.n # last.n /\ last'.type = "DEPLOY") =>
          IF can_deploy_at(World, last'.position, last'.operator)
          THEN last'.success \/ last'.reason \in {"insufficient_cost", "roster_full"}
          ELSE ~last'.success]_vars

\* a deploy has succeeded on a tile open to every class, and another deploy
\* could still be made
C1_Witness ==
    /\ last.type = "DEPLOY" /\ last.success
    /\ cfg.tiles[get_tile_at(last.position)] = "ALL"
    /\ \E o \in DOMAIN operators, p \in cfg.plan_positions :
           can_deploy_at(World, p, o)

\* C2: in every reachable world, a successful deploy_operator followed at
\* once by retreat_operator of the same operator gives back the deployed
\* roster and the occupancy of every tile as they were before the deploy,
\* and the current cost is lower by the operator's deploy cost.
C2_DeployRetreatRestores ==
    \A o \in DOMAIN operators, p \in cfg.plan_positions :
        LET d == deploy_operator(World, o, p, "RIGHT")
            r == retreat_operator(d.w, o)
        IN  d.success =>
              /\ r.success
              /\ r.w.gm.deployed_operators = gm.deployed_operators
              /\ r.w.tiles = tiles
              /\ r.w.gm.current_cost =
                     FSub(gm.current_cost, FInt(operators[o].deploy_cost))

C4_BlockCapacity ==
    sim.after_update =>
        \A o \in DOMAIN operators :
            Len(operators[o].blocked_enemies) <= operators[o].max_block_count

\* an operator blocks as many enemies as it can while a second living enemy
\* stands unblocked on its tile
C4_Witness ==
    /\ sim.after_update
    /\ \E o \in DOMAIN operators, i \in 1..Len(gm.active_enemies) :
          /\ operators[o].is_deployed
          /\ operators[o].max_block_count >= 1
          /\ Len(operators[o].blocked_enemies) = operators[o].max_block_count
          /\ enemies[gm.active_enemies[i]].is_alive
          /\ ~enemies[gm.active_enemies[i]].is_blocked
          /\ enemies[gm.active_enemies[i]].position = operators[o].position

\* C5: at every tick boundary, for every enemy e of the active roster and
\* every operator o: e is marked blocked with blocker o if and only if e is
\* in o's blocked-enemy list.  It is stated for living enemies and living
\* operators only, the case in which no cleanup is pending.
C5_BlockingConsistent ==
    sim.after_update =>
        \A i \in 1..Len(gm.active_enemies), o \in DOMAIN operators :
            (enemies[gm.active_enemies[i]].is_alive /\ operators[o].is_alive) =>
                ((/\ enemies[gm.active_enemies[i]].is_blocked
                  /\ enemies[gm.active_enemies[i]].blocked_by = o)
                 <=> InSeq(gm.active_enemies[i], operators[o].blocked_enemies))

\* C6: at every tick boundary the victory flag is set if and only if the
\* wave index has passed the last wave, no enemy is active, life points are
\* above 0 and the defeat flag is not set; victory and defeat are never
\* both set.
C6_VictoryIff ==
    sim.after_update =>
        /\ gm.is_victory <=>
              (/\ gm.current_wave_index >= Len(cfg.waves)
               /\ gm.active_enemies = <<>>
               /\ gm.current_life_points > 0
               /\ ~gm.is_defeat)
        /\ ~(gm.is_victory /\ gm.is_defeat)

\* victory has been declared after both enemies were spawned and at least
\* one of them was killed
C6_Witness ==
    /\ sim.after_update /\ gm.is_victory
    /\ Len(enemies) = 2
    /\ \E i \in 1..Len(enemies) : ~enemies[i].is_alive

\* C7 (first part): at every tick boundary with life points at or below 0
\* the defeat flag is set, whatever the initial life points of the run.
C7_DefeatWhenNoLife ==
    sim.after_update /\ gm.current_life_points <= 0 => gm.is_defeat

C9_DamageAtLeastOne ==
    [][ret'.hits = ret.hits + 1 =>
          /\ ret'.current_hp >= 0
          /\ ret.current_hp >= 1 => ret'.current_hp <= ret.current_hp - 1
          /\ ret.current_hp = 0 => ret'.current_hp = 0
          /\ ~arg.is_arts =>
                LET d == IF arg.damage - ret.def_ >= 1
                         THEN arg.damage - ret.def_ ELSE 1
                IN  ret'.current_hp =
                        IF ret.current_hp - d >= 0 THEN ret.current_hp - d ELSE 0]_vars

\* a target whose defense exceeds the attack has taken two physical hits and
\* is still alive
C9_Witness ==
    /\ ret.hits = 2 /\ ~arg.is_arts
    /\ arg.damage < ret.def_
    /\ ret.current_hp >= 1 /\ ret.is_alive

(***************************************************************************)
(* Timed skills (SkillSpec)                                                *)
(***************************************************************************)
\* the number of 0.1 s ticks of a duration
DurationTicks(duration) ==
    CASE duration = F0_3 -> 3
      [] duration = F0_5 -> 5
      [] OTHER -> 0

\* C10: a timed skill of n ticks on an operator that stays deployed (once
\* in the roster) is active for the n ticks after its activation and
\* inactive right after.  k is the number of updates since the last command.
\*  - automatic: the skill is ready when the operator is deployed (the first
\*    command of the script), so the first update after the deploy activates
\*    it; it is active at the end of that update and of the n - 1 updates
\*    that follow, and inactive at the end of the next one;
\*  - script: an ACTIVATE_SKILL command has succeeded; the skill is active
\*    until n - 1 updates have been done and inactive once more than n have
\*    (the n-th update may count either way).
C10_TimedSkillLastsNTicks ==
    LET s == operators["o1"].skills[1]
        n == DurationTicks(s.duration)
        k == sim.ticks - last.tick
    IN  (/\ sim.after_update /\ last.success
         /\ operators["o1"].is_deployed /\ gm.deployed_operators = <<"o1">>) =>
          /\ (last.type = "DEPLOY" /\ last.n = 1 /\ s.skill_type = "AUTO") =>
                /\ (1 <= k /\ k <= n) => s.is_active
                /\ k = n + 1 => ~s.is_active
          /\ last.type = "ACTIVATE_SKILL" =>
                /\ k < n => s.is_active
                /\ k > n => ~s.is_active

(***************************************************************************)
(* Properties of routes                                                    *)
(***************************************************************************)
\* C11: for every route with diagonal movement disabled, the generated path
\* starts at the start position, ends at the end position, and any two
\* consecutive waypoints differ by exactly one in the row and not at all in
\* the column, or by exactly one in the column and not at all in the row.
C11_PathStepsOrthogonal ==
    ret # NoCall =>
        /\ Len(ret) >= 1
        /\ ret[1] = arg.start_position
        /\ ret[Len(ret)] = arg.end_position
        /\ \A i \in 1..(Len(ret) - 1) :
               LET dr == ret[i + 1].row - ret[i].row
                   dc == ret[i + 1].col - ret[i].col
               IN  \/ dr \in {0 - 1, 1} /\ dc = 0
                   \/ dc \in {0 - 1, 1} /\ dr = 0

\* a path through two checkpoints that turns: it has steps along the rows
\* and steps along the columns, and comes back to a tile it has left
C11_Witness ==
    /\ ret # NoCall
    /\ Len(arg.checkpoints) = 2
    /\ \E i \in 1..(Len(ret) - 1) : ret[i + 1].row # ret[i].row
    /\ \E i \in 1..(Len(ret) - 1) : ret[i + 1].col # ret[i].col
    /\ \E i, j \in 1..Len(ret) : j > i + 1 /\ ret[i] = ret[j]

(***************************************************************************)
(* Properties of the order of a tick                                       *)
(***************************************************************************)
\* C12: an operator whose HP has reached 0 deals no damage in any later
\* tick.  In every reachable state, for every dead operator, the next
\* GameMap.update leaves every enemy exactly as it would if that operator
\* were unable to attack in it (its attack cooldown set to a full second).
C12_DeadOperatorDealsNoDamage ==
    \A o \in DOMAIN operators :
        ~operators[o].is_alive =>
            update(World).en =
                update([World EXCEPT !.ops[o].attack_cooldown = F1]).en

\* an operator killed in the last tick: it is still in the roster, an enemy
\* it was blocking is alive, and its attack cooldown runs out in the next
\* operator update
C12_Witness ==
    /\ sim.after_update
    /\ \E o \in DOMAIN operators :
           /\ ~operators[o].is_alive
           /\ InSeq(o, gm.deployed_operators)
           /\ first_alive(World, operators[o].blocked_enemies, 1) # 0
           /\ InSeq(first_alive(World, operators[o].blocked_enemies, 1),
                    gm.active_enemies)
           /\ FLe(FSub(operators[o].attack_cooldown, time_step), FZero)

\* C13: a dead operator is auto-retreated in the tick in which its HP
\* reaches 0.  At every tick boundary no operator with HP 0 is in the
\* deployed roster and no tile is occupied by an operator with HP 0.
C13_NoDeadOperatorAtBoundary ==
    sim.after_update =>
        \A o \in DOMAIN operators :
            operators[o].current_hp = 0 =>
                /\ ~InSeq(o, gm.deployed_operators)
                /\ \A t \in DOMAIN tiles : tiles[t] # o

(***************************************************************************)
(* Properties of the battle script                                         *)
(***************************************************************************)
\* the trigger time of the action that stands at place id of the plan file
TimeOf(id) == (CHOOSE a \in {arg.actions[i] : i \in 1..Len(arg.actions)} : a.id = id).time

\* C14: during a run no action is applied twice, none before its trigger
\* time, and the actions are applied in non-decreasing order of trigger
\* time, actions of equal time in the order of the plan file; and whenever
\* the world advances by a tick, every action whose trigger time is at or
\* before the current simulated time has been applied.
C14_ScriptAppliedInOrder ==
    /\ [](arg.loaded =>
            /\ \A i, j \in 1..Len(arg.calls) : i < j =>
                   /\ arg.calls[i].id # arg.calls[j].id
                   /\ FLe(TimeOf(arg.calls[i].id), TimeOf(arg.calls[j].id))
                   /\ (TimeOf(arg.calls[i].id) = TimeOf(arg.calls[j].id)
                         => arg.calls[i].id < arg.calls[j].id)
            /\ \A i \in 1..Len(arg.calls) : FLe(TimeOf(arg.calls[i].id), arg.calls[i].time))
    /\ [][(arg.loaded /\ sim'.ticks # sim.ticks) =>
            \A k \in 1..Len(arg.actions) :
                FLe(arg.actions[k].time, sim.current_time) =>
                    \E i \in 1..Len(arg.calls) : arg.calls[i].id = arg.actions[k].id]_vars

\* three actions have been applied in an order that is not the order of the
\* file, two of them with the same trigger time, and not all in the same
\* iteration of the run loop
C14_Witness ==
    /\ arg.loaded /\ Len(arg.calls) >= 3 /\ sim.after_update
    /\ \E i \in 1..(Len(arg.calls) - 1) : arg.calls[i].id > arg.calls[i + 1].id
    /\ \E i \in 1..(Len(arg.calls) - 1) : TimeOf(arg.calls[i].id) = TimeOf(arg.calls[i + 1].id)
    /\ \E i \in 1..(Len(arg.calls) - 1) : arg.calls[i].tick < arg.calls[i + 1].tick

\* an action that is unknown or malformed: a type without a handler, an
\* operator the plan does not configure, a DEPLOY without a position, or a
\* skill index that is not an index of the operator's skill list
Malformed(a) ==
    \/ a.action_type \notin {"DEPLOY", "RETREAT", "ACTIVATE_SKILL"}
    \/ a.operator_id \notin DOMAIN operators
    \/ a.action_type = "DEPLOY" /\ ~Truthy(a.position)
    \/ /\ a.action_type = "ACTIVATE_SKILL"
       /\ a.operator_id \in DOMAIN operators
       /\ a.skill_index \notin 0..(Len(operators[a.operator_id].skills) - 1)

\* C15: an unknown or malformed script command is skipped without changing
\* the world and never aborts the run.  A run ends only in victory, defeat
\* or timeout; a plan that lists such a command is still loaded; and the
\* step that takes such a command, when it falls due, leaves the world as it
\* was and goes on to the next command.
C15_MalformedCommandSkipped ==
    /\ [](sim.finished => sim.reason \in {"victory", "defeat", "timeout"})
    /\ [][(arg.loaded /\ ~sim.finished /\ ActionDue
             /\ Malformed(arg.actions[sim.commands + 1])
             /\ sim' # sim) =>
            /\ UNCHANGED worldVars
            /\ sim'.commands = sim.commands + 1
            /\ ~sim'.finished]_vars

(***************************************************************************)
(* Properties of the run loop                                              *)
(***************************************************************************)
\* max_simulation_time / time_step, the number of ticks in 60 s
TickLimit == 60 * 10

\* C16: every run ends after at most max_simulation_time / time_step ticks
\* in exactly one outcome: victory if the victory flag is set, defeat if
\* the defeat flag is set, timeout otherwise; and no tick is executed once
\* the victory or the defeat flag is set.
C16_RunEndsInOneOutcome ==
    /\ [](/\ sim.ticks <= TickLimit
          /\ (sim.ticks = TickLimit /\ ~sim.finished) => ENABLED Timeout
          /\ sim.finished =>
                /\ sim.reason \in {"victory", "defeat", "timeout"}
                /\ sim.reason = "victory" <=> gm.is_victory
                /\ sim.reason = "defeat" <=> (gm.is_defeat /\ ~gm.is_victory))
    /\ [][(gm.is_victory \/ gm.is_defeat \/ sim.finished) =>
              sim'.ticks = sim.ticks]_vars

(***************************************************************************)
(* Properties of repeated deployment                                       *)
(***************************************************************************)
\* C17: an operator can be deployed again after a retreat.  Whenever a
\* DEPLOY command names a living operator that has been deployed and
\* retreated (its position is cleared and it is not in the roster) and a
\* free tile of the operator's own placement class, with sufficient cost
\* and room in the roster, the deploy succeeds.
C17_RedeployAfterRetreat ==
    [][(/\ last'.n # last.n /\ last'.type = "DEPLOY"
        /\ ~Truthy(operators[last'.operator].position)
        /\ operators[last'.operator].is_alive
        /\ ~InSeq(last'.operator, gm.deployed_operators)
        /\ get_tile_at(last'.position) # NoTile
        /\ tiles[get_tile_at(last'.position)] = None
        /\ cfg.tiles[get_tile_at(last'.position)]
              = cfg.operators[last'.operator].position
        /\ ~cost_insufficient(gm.current_cost, operators[last'.operator].deploy_cost)
        /\ Len(gm.deployed_operators) < cfg.character_limit)
       => last'.success]_vars

(***************************************************************************)
(* Determinism                                                             *)
(***************************************************************************)
\* how far a run has come: plan loaded, commands executed, updates done,
\* run over
Progress(r) == <<r.plan.loaded, r.plan.failed, r.sim.commands, r.sim.ticks,
                 r.sim.finished>>

C19_CostWithinBounds ==
    /\ FLe(FZero, gm.current_cost)
    /\ FLe(gm.current_cost, FInt(cfg.max_cost))

\* after at least one tick spent at the cap, a deploy has taken the whole
\* cost: the current cost is exactly 0
C19_Witness ==
    /\ last.type = "DEPLOY" /\ last.success /\ last.tick >= 1
    /\ operators[last.operator].deploy_cost = cfg.max_cost
    /\ cfg.initial_cost = cfg.max_cost
    /\ gm.current_cost = FZero

\* C20: life points are bounded.  In every reachable state the current life
\* points are at least 0 and at most the initial life points, also after a
\* tick in which several enemies reach the goal.
C20_LifeWithinBounds ==
    /\ 0 <= gm.current_life_points
    /\ gm.current_life_points <= cfg.life_points

(***************************************************************************)
(* Properties of the result of a run                                       *)
(***************************************************************************)
\* C21: when a run is over, the result's list of deployed operators holds
\* every operator that was successfully deployed at some point of the run,
\* also those retreated or killed since.  (An operator has been deployed
\* exactly if its position no longer holds its placement class.)
C21_ResultListsEveryDeployed ==
    sim.finished =>
        \A o \in DOMAIN operators :
            operators[o].position.kind # "str" =>
                InSeq(o, result_operators_deployed(World))

\* C22: when a run is over, for every outcome, the result's count of
\* defeated enemies is the number of enemies whose HP has been reduced to 0.
C22_ResultCountsKilledEnemies ==
    sim.finished =>
        result_enemies_defeated(World)
            = Cardinality({i \in 1..Len(enemies) : enemies[i].current_hp = 0})

(***************************************************************************)
(* Properties of the wave scheduler                                        *)
(***************************************************************************)
FragmentsCompleted(k) ==
    \A f \in 1..Len(waves[k].fragments) : waves[k].fragments[f].is_completed

ActionsCompleted(k, f) ==
    \A i \in 1..Len(waves[k].fragments[f].actions) :
        waves[k].fragments[f].actions[i].is_completed

\* C23 as stated: at every tick boundary, for every wave (visited, current
\* or not yet reached, with or without fragments), the wave is flagged
\* completed iff all its fragments are, and every fragment (with or without
\* actions) is flagged completed iff all its actions are.
C23_FlagsIffAllParts ==
    \A k \in 1..Len(waves) :
        /\ waves[k].is_completed <=> FragmentsCompleted(k)
        /\ \A f \in 1..Len(waves[k].fragments) :
               waves[k].fragments[f].is_completed <=> ActionsCompleted(k, f)

\* C23, amended: the equivalences hold for every wave that has a fragment
\* and every fragment that has an action.  A wave without fragments is
\* flagged completed iff the scheduler has gone past it, and a fragment
\* without actions iff it has been activated; a flagged wave or fragment
\* has all its parts flagged.
C23_FlagsIffAllPartsNonEmpty ==
    \A k \in 1..Len(waves) :
        /\ waves[k].is_completed => FragmentsCompleted(k)
        /\ waves[k].fragments # <<>> =>
               (FragmentsCompleted(k) => waves[k].is_completed)
        /\ waves[k].fragments = <<>> =>
               (waves[k].is_completed <=> k <= gm.current_wave_index)
        /\ \A f \in 1..Len(waves[k].fragments) :
               /\ waves[k].fragments[f].is_completed => ActionsCompleted(k, f)
               /\ waves[k].fragments[f].actions # <<>> =>
                      (ActionsCompleted(k, f) => waves[k].fragments[f].is_completed)
               /\ waves[k].fragments[f].actions = <<>> =>
                      (waves[k].fragments[f].is_completed
                           <=> waves[k].fragments[f].is_active)

\* a tick has passed, a fragment with actions is completed, and a fragment
\* without actions of the same wave is still waiting for its delay
C23_Witness ==
    /\ sim.ticks > 0
    /\ \E k \in 1..Len(waves) : \E f, g \in 1..Len(waves[k].fragments) :
           /\ waves[k].fragments[f].actions # <<>>
           /\ waves[k].fragments[f].is_completed
           /\ waves[k].fragments[g].actions = <<>>
           /\ ~waves[k].fragments[g].is_completed

\* the SPAWN actions of the level, as <<wave, fragment, action>>
SpawnActions ==
    UNION {UNION {{<<k, f, i>> : i \in {j \in 1..Len(cfg.waves[k].fragments[f].actions) :
                                          cfg.waves[k].fragments[f].actions[j].action_type = "SPAWN"}} :
                  f \in 1..Len(cfg.waves[k].fragments)} :
           k \in 1..Len(cfg.waves)}

WaveActionOf(s) == cfg.waves[s[1]].fragments[s[2]].actions[s[3]]

WaveActionState(s) == waves[s[1]].fragments[s[2]].actions[s[3]]

\* one mark for every increment of a spawn count
SpawnMarks == UNION {{<<s, n>> : n \in 1..WaveActionState(s).spawned_count} : s \in SpawnActions}

\* C24: for every SPAWN action with target count n: its spawn count never
\* exceeds n; it has created no enemy before its own elapsed time reached
\* its trigger delay; every increment of its spawn count is one enemy
\* created on the action's route (for every enemy key and route, the
\* increments of the actions with that key and route are as many as the
\* enemies created with them); and it is marked complete exactly when its
\* spawn count has reached n.
C24_SpawnActionCounts ==
    /\ \A s \in SpawnActions :
           /\ WaveActionState(s).spawned_count <= WaveActionOf(s).count
           /\ WaveActionState(s).spawned_count > 0 =>
                  FLe(WaveActionOf(s).pre_delay, WaveActionState(s).current_time)
           /\ WaveActionState(s).is_completed
                  <=> WaveActionState(s).spawned_count = WaveActionOf(s).count
    /\ \A s \in SpawnActions :
           Cardinality({m \in SpawnMarks :
                           /\ WaveActionOf(m[1]).key = WaveActionOf(s).key
                           /\ WaveActionOf(m[1]).route_index = WaveActionOf(s).route_index})
             = Cardinality({j \in 1..Len(enemies) :
                               /\ enemies[j].key = WaveActionOf(s).key
                               /\ enemies[j].route = WaveActionOf(s).route_index})

\* C25: the spawn schedule does not depend on the battle script or on who
\* dies.  After any number of ticks of any run of a level, the state of the
\* scheduler and the list of the enemies created so far (key and route, in
\* order) are those of the scheduler run alone for that many ticks; hence
\* in any two runs of the level each enemy is created in the same tick with
\* the same key and route.
C25_SpawnScheduleIgnoresCombat ==
    /\ waves = schedule(sim.ticks).waves
    /\ gm.current_wave_index = schedule(sim.ticks).gm.current_wave_index
    /\ SpawnList(enemies) = SpawnList(schedule(sim.ticks).en)

\* the deployed operator has been killed, an enemy has been hurt, and an
\* enemy has been created after both of them
C25_Witness ==
    /\ ~operators["o1"].is_alive
    /\ \E j \in 1..Len(enemies) : \E n \in 1..Len(enemies) :
           /\ j < n
           /\ enemies[j].current_hp < enemies[j].max_hp
           /\ enemies[n].path_index = 0

\* every wave, fragment and action is marked complete and the scheduler is
\* past the last wave
SchedulerDone ==
    /\ gm.current_wave_index = Len(waves)
    /\ \A k \in 1..Len(waves) :
           /\ waves[k].is_completed
           /\ FragmentsCompleted(k)
           /\ \A f \in 1..Len(waves[k].fragments) : ActionsCompleted(k, f)

\* an action of wave k has created an enemy
WaveHasSpawned(k) ==
    \E s \in SpawnActions : s[1] = k /\ WaveActionState(s).spawned_count > 0

\* the waves complete in order, and a wave has created no enemy before the
\* wave in front of it is complete
WavesInOrder ==
    \A k \in 1..(Len(waves) - 1) :
        /\ waves[k + 1].is_completed => waves[k].is_completed
        /\ WaveHasSpawned(k + 1) => waves[k].is_completed

\* C26: for every wave tree with finite trigger delays and spawn counts
\* >= 0 the scheduler completes after finitely many ticks (every action,
\* fragment and wave marked complete, current wave index = number of
\* waves): with delays of at most 0.2 s and life points to spare, it has
\* completed when the run is over.  The waves complete in order, and no
\* enemy of wave k+1 is created before wave k is complete.
C26_SchedulerCompletes == (sim.finished => SchedulerDone) /\ WavesInOrder

(***************************************************************************)
(* Properties of skill activation                                          *)
(***************************************************************************)
\* the ready state: a banked charge for a skill with charges, SP >= cost
\* for a single-pool skill
Ready(s) ==
    IF s.max_charge_time > 1 THEN s.charge_count > 0
    ELSE FLe(s.sp_cost, s.current_sp)

\* the skills of the operators as they are, and as update_skills sees them
\* when it tests for automatic activation
SkillsInPlay ==
    UNION {UNION {{operators[id].skills[i],
                   update_duration(update_sp(operators[id].skills[i]))} :
                  i \in 1..Len(operators[id].skills)} :
           id \in DOMAIN operators}

\* no passive skill is active, and Skill.activate leaves a skill that is
\* passive or not ready as it is
NoActivationUnlessReady ==
    /\ \A id \in DOMAIN operators : \A i \in 1..Len(operators[id].skills) :
           operators[id].skills[i].skill_type = "PASSIVE"
               => ~operators[id].skills[i].is_active
    /\ \A s \in SkillsInPlay :
           (s.skill_type = "PASSIVE" \/ ~Ready(s)) => activate(s) = s

\* this step is an ACTIVATE_SKILL command that reached a skill
SkillCommandStep ==
    /\ last'.n # last.n
    /\ last'.type = "ACTIVATE_SKILL"
    /\ operators[last'.operator].is_deployed
    /\ last'.skill_index < Len(operators[last'.operator].skills)

\* the skill the command names, before the command
CommandedSkill == operators[last'.operator].skills[last'.skill_index + 1]

\* on a skill that is not ready the command fails and changes nothing; a
\* command that succeeds found a manual or automatic skill that was ready
CommandNeedsReady ==
    SkillCommandStep =>
        /\ ~Ready(CommandedSkill) => ~last'.success /\ operators' = operators
        /\ last'.success =>
               /\ Ready(CommandedSkill)
               /\ CommandedSkill.skill_type \in {"MANUAL", "AUTO"}

\* C27: activation succeeds only in the ready state and only for manual or
\* automatic skills: a passive skill is never active, and an attempt on a
\* skill with SP below its cost (or, with charges, no banked charge) fails
\* and leaves SP, charge count, active flag and remaining duration and
\* ammo as they were.
C27_ActivationOnlyWhenReady ==
    []NoActivationUnlessReady /\ [][CommandNeedsReady]_vars

\* a command has just failed on a deployed operator's manual skill that has
\* gained SP but not yet its cost
C27_Witness ==
    /\ last.type = "ACTIVATE_SKILL"
    /\ last.reason = "insufficient_sp"
    /\ sim.ticks > 0
    /\ last.tick = sim.ticks
    /\ operators["o1"].skills[1].skill_type = "MANUAL"
    /\ FLt(FZero, operators["o1"].skills[1].current_sp)
    /\ ~Ready(operators["o1"].skills[1])

\* t is skill s after a successful activation, as C28 describes it
Activated(s, t) ==
    /\ IF s.max_charge_time > 1
       THEN t.charge_count = s.charge_count - 1 /\ t.current_sp = s.current_sp
       ELSE t.current_sp = FZero /\ t.charge_count = s.charge_count
    /\ t.is_active
    /\ s.duration_type = "SECONDS" => t.remaining_duration = s.duration
    /\ s.duration_type = "AMMO" => t.remaining_ammo = s.ammo
    /\ s.duration_type = "NONE" => ~update_duration(t).is_active

\* Skill.activate on every ready skill that is not passive, as stored and
\* as update_skills sees it at its automatic test
ActivateAsDescribed ==
    \A s \in SkillsInPlay :
        (s.skill_type # "PASSIVE" /\ Ready(s)) => Activated(s, activate(s))

\* a successful ACTIVATE_SKILL command leaves the skill activated; a tick
\* deactivates an active instantaneous manual skill of a deployed operator
CommandActivates ==
    /\ (SkillCommandStep /\ last'.success) =>
           Activated(CommandedSkill,
                     operators'[last'.operator].skills[last'.skill_index + 1])
    /\ sim'.ticks # sim.ticks =>
           \A id \in DOMAIN operators : \A i \in 1..Len(operators[id].skills) :
               (/\ operators[id].is_deployed
                /\ operators[id].skills[i].is_active
                /\ operators[id].skills[i].duration_type = "NONE"
                /\ operators[id].skills[i].skill_type = "MANUAL")
                   => ~operators'[id].skills[i].is_active

\* C28: a successful activation consumes exactly one banked charge of a
\* skill with charges and leaves its SP, resets the SP of a single-pool
\* skill to 0, and sets the skill active; a timed skill starts with its
\* configured duration, an ammo skill with its configured ammo count, and
\* an instantaneous skill is deactivated by the next duration update.
C28_ActivationConsumesAndStarts ==
    []ActivateAsDescribed /\ [][CommandActivates]_vars

\* a command has just activated an ammo skill with two banked charges: one
\* charge is left and the ammo is loaded
C28_Witness ==
    /\ last.type = "ACTIVATE_SKILL"
    /\ last.success
    /\ last.tick = sim.ticks
    /\ operators["o1"].skills[1].max_charge_time > 1
    /\ operators["o1"].skills[1].charge_count = 1
    /\ operators["o1"].skills[1].duration_type = "AMMO"
    /\ operators["o1"].skills[1].remaining_ammo = 2

\* skill i of operator id of a deployed operator is automatic and becomes
\* ready in the tick that starts here: it is not ready now and it is once
\* update_skills has updated its SP
BecomesReady(id, i) ==
    /\ operators[id].is_deployed
    /\ operators[id].skills[i].skill_type = "AUTO"
    /\ ~Ready(operators[id].skills[i])
    /\ Ready(update_sp(operators[id].skills[i]))

\* C29: an automatic skill of a deployed operator activates itself in the
\* very tick in which it becomes ready (SP >= cost for a single-pool
\* skill, at least one banked charge for a skill with charges).
C29_AutoFiresWhenReady ==
    [][sim'.ticks # sim.ticks =>
          \A id \in DOMAIN operators : \A i \in 1..Len(operators[id].skills) :
              BecomesReady(id, i) => operators'[id].skills[i].is_active]_vars

(***************************************************************************)
(* Properties of SP accrual in combat                                      *)
(***************************************************************************)
\* in this tick the operator lands an attack: an enemy loses HP (there is
\* one operator, and nothing else hurts an enemy)
LandsAttack ==
    /\ sim'.ticks # sim.ticks
    /\ \E j \in 1..Len(enemies) : enemies'[j].current_hp < enemies[j].current_hp

\* in this tick operator id takes damage
TakesDamage(id) ==
    /\ sim'.ticks # sim.ticks
    /\ operators'[id].current_hp < operators[id].current_hp

\* C30: in a battle tick a skill with on-attack accrual gains its increment
\* of SP when its operator lands an attack, and a skill with on-damage
\* accrual when its operator takes damage from an enemy.
C30_SpAccruesInCombat ==
    [][\A id \in DOMAIN operators : \A i \in 1..Len(operators[id].skills) :
          /\ (LandsAttack /\ operators[id].is_deployed)
                 => operators'[id].skills[i].current_sp
                        = gain_sp_on_attack(operators[id].skills[i]).current_sp
          /\ TakesDamage(id)
                 => operators'[id].skills[i].current_sp
                        = gain_sp_on_damage(operators[id].skills[i]).current_sp]_vars

(***************************************************************************)
(* Properties of SP regeneration                                           *)
(***************************************************************************)
\* this step is a tick in which operator id neither lands an attack nor
\* takes damage
QuietTick(id) == sim'.ticks # sim.ticks /\ ~LandsAttack /\ ~TakesDamage(id)

\* skill i of operator id keeps its SP and its charge count in this step
SpUnchanged(id, i) ==
    /\ operators'[id].skills[i].current_sp = operators[id].skills[i].current_sp
    /\ operators'[id].skills[i].charge_count = operators[id].skills[i].charge_count

\* the skills of an operator that is not deployed are left alone
IdleSkillsUnchanged ==
    \A id \in DOMAIN operators :
        ~operators[id].is_deployed => operators'[id].skills = operators[id].skills

\* C31 as stated: over any tick in which the operator neither attacks nor
\* is hit, the SP and the charge count of an on-attack or on-damage skill
\* are unchanged, and the skills of an operator that is not deployed never
\* change.
C31_NoTimeRegenForOtherSkills ==
    [][/\ IdleSkillsUnchanged
       /\ \A id \in DOMAIN operators : \A i \in 1..Len(operators[id].skills) :
              (QuietTick(id) /\ operators[id].skills[i].sp_type # "INCREASE_WITH_TIME")
                  => SpUnchanged(id, i)]_vars

\* C31, amended: the same, except for a tick in which the skill of a
\* deployed operator is activated automatically, which spends its SP or a
\* charge; no tick adds SP or a charge to such a skill.
C31_NoTimeRegenUnlessAutoFired ==
    [][/\ IdleSkillsUnchanged
       /\ \A id \in DOMAIN operators : \A i \in 1..Len(operators[id].skills) :
              (QuietTick(id) /\ operators[id].skills[i].sp_type # "INCREASE_WITH_TIME")
                  => /\ FLe(operators'[id].skills[i].current_sp,
                            operators[id].skills[i].current_sp)
                     /\ operators'[id].skills[i].charge_count
                            <= operators[id].skills[i].charge_count
                     /\ (operators[id].is_deployed
                            /\ should_auto_activate(operators[id].skills[i]))
                         \/ SpUnchanged(id, i)]_vars

\* a deployed operator with an on-attack skill below its cost has lived
\* through ticks, the last of them with an enemy on the field
C31_Witness ==
    /\ sim.ticks > 2
    /\ operators["o1"].is_deployed
    /\ operators["o1"].skills[1].sp_type = "INCREASE_WHEN_ATTACK"
    /\ operators["o1"].skills[1].current_sp = FZero
    /\ FLt(F0_1, operators["o1"].deploy_time)
    /\ gm.active_enemies # <<>>

\* the skills of all operators
AllSkills ==
    UNION {{operators[id].skills[i] : i \in 1..Len(operators[id].skills)} :
           id \in DOMAIN operators}

\* after an SP gain a skill with charges has all its charges or less SP
\* than its cost
BankedUp(s) == s.charge_count = s.max_charge_time \/ FLt(s.current_sp, s.sp_cost)

\* C32: for a skill with charges, after any sequence of SP gains and
\* activations, 0 <= charge count <= max charge slots, and after every SP
\* gain (by time, on attack or on damage) the charge count is the maximum
\* or the SP pool is below the cost; for a single-pool skill, 0 <= SP <=
\* cost.
C32_ChargeAndSpBounds ==
    \A s \in AllSkills :
        IF s.max_charge_time > 1
        THEN /\ 0 <= s.charge_count
             /\ s.charge_count <= s.max_charge_time
             /\ FLe(FZero, s.current_sp)
             /\ BankedUp(update_sp(s))
             /\ BankedUp(gain_sp(s, s.increment))
        ELSE /\ FLe(FZero, s.current_sp)
             /\ FLe(s.current_sp, s.sp_cost)
             /\ FLe(update_sp(s).current_sp, s.sp_cost)
             /\ FLe(gain_sp(s, s.increment).current_sp, s.sp_cost)

\* a skill has both its charges and SP beyond its cost in the pool, and a
\* command has spent a charge of it before
C32_Witness ==
    /\ last.type = "ACTIVATE_SKILL"
    /\ last.success
    /\ operators["o1"].skills[1].max_charge_time = 2
    /\ operators["o1"].skills[1].charge_count = 2
    /\ FLe(operators["o1"].skills[1].sp_cost, operators["o1"].skills[1].current_sp)

(***************************************************************************)
(* Properties of ammo-limited skills                                       *)
(***************************************************************************)
\* C33: an active ammo-limited skill of a deployed operator loses one round
\* with each attack the operator performs and is deactivated when the ammo
\* reaches 0 (a tick in which the skill is activated anew set aside).
C33_AmmoSpentPerAttack ==
    [][\A id \in DOMAIN operators : \A i \in 1..Len(operators[id].skills) :
          (/\ LandsAttack
           /\ operators[id].is_deployed
           /\ operators[id].skills[i].duration_type = "AMMO"
           /\ operators[id].skills[i].is_active
           /\ ~should_auto_activate(update_sp(operators[id].skills[i])))
              => /\ operators'[id].skills[i].remaining_ammo
                        = consume_ammo(operators[id].skills[i]).remaining_ammo
                 /\ operators'[id].skills[i].is_active
                        = consume_ammo(operators[id].skills[i]).is_active]_vars

(***************************************************************************)
(* Properties of target selection                                          *)
(***************************************************************************)
\* the offset <<row, col>> of a footprint drawn for facing RIGHT, turned to
\* facing d
Turn(v, d) ==
    CASE d = "RIGHT" -> v
      [] d = "DOWN" -> <<v[2], 0 - v[1]>>
      [] d = "LEFT" -> <<0 - v[1], 0 - v[2]>>
      [] d = "UP" -> <<0 - v[2], v[1]>>

\* C34: the footprint in which a deployed operator looks for a target that
\* it does not block is its own attack range rotated according to its
\* facing: the range it has when facing RIGHT, turned to its direction (so
\* that operators on the same tile with different facings can have
\* different targets).
C34_FootprintTurnsWithFacing ==
    \A id \in DOMAIN operators :
        operators[id].is_deployed =>
            get_rotated_attack_range(operators[id])
                = {Turn(v, operators[id].direction) :
                      v \in get_rotated_attack_range(
                                [operators[id] EXCEPT !.direction = "RIGHT"])}

(***************************************************************************)
(* Properties of enemy movement                                            *)
(***************************************************************************)
\* the route index of every enemy is on its path
IndexOnPath ==
    \A j \in 1..Len(enemies) :
        /\ 0 <= enemies[j].path_index
        /\ PathOf(enemies[j]) # <<>> => enemies[j].path_index < Len(PathOf(enemies[j]))

\* when the run is over, every enemy with positive speed that is alive and
\* unblocked has its reached-goal flag and is out of the roster, and the
\* life points lost are as many as the enemies that have reached the goal
AllArrived ==
    sim.finished =>
        /\ \A j \in 1..Len(enemies) :
               (/\ FLt(FZero, enemies[j].move_speed)
                /\ enemies[j].is_alive
                /\ ~enemies[j].is_blocked)
                   => enemies[j].has_reached_goal /\ ~InSeq(j, gm.active_enemies)
        /\ cfg.life_points - gm.current_life_points
               = Cardinality({j \in 1..Len(enemies) : enemies[j].has_reached_goal})

\* a tick neither lowers a route index nor moves a blocked enemy
MovesForward ==
    \A j \in 1..Len(enemies) :
        /\ enemies'[j].path_index >= enemies[j].path_index
        /\ (sim'.ticks # sim.ticks /\ enemies[j].is_blocked) =>
               /\ enemies'[j].position = enemies[j].position
               /\ enemies'[j].path_index = enemies[j].path_index
               /\ enemies'[j].move_progress = enemies[j].move_progress

\* C35: an enemy's route index never decreases and never exceeds the last
\* waypoint index, a tick leaves a blocked enemy where it is, and every
\* enemy with positive speed that stays alive and unblocked reaches the
\* goal, leaves the roster and costs one life point, on every generated
\* route, also one whose start is its end: in a run of 60 s on a route of
\* at most five tiles it has done so when the run is over.
C35_EnemiesReachGoal == [](IndexOnPath /\ AllArrived) /\ [][MovesForward]_vars

(***************************************************************************)
(* Properties of the deployed roster                                       *)
(***************************************************************************)
\* C36: under any sequence of DEPLOY and RETREAT commands, also a DEPLOY of
\* an operator that is deployed already, each operator is at most once in
\* the deployed roster, the roster is no longer than the character limit,
\* and a tile holds operator o if and only if o is in the roster with that
\* tile as its position (so that an operator occupies at most one tile).
C36_RosterMatchesTiles ==
    /\ \A i, j \in 1..Len(gm.deployed_operators) :
           gm.deployed_operators[i] = gm.deployed_operators[j] => i = j
    /\ Len(gm.deployed_operators) <= cfg.character_limit
    /\ \A t \in DOMAIN tiles : \A o \in DOMAIN operators :
           tiles[t] = o <=>
               /\ InSeq(o, gm.deployed_operators)
               /\ operators[o].position.kind = "pos"
               /\ get_tile_at(operators[o].position) = t

(***************************************************************************)
(* Properties of blocking across commands                                  *)
(***************************************************************************)
\* C37: at every tick boundary, every enemy of the active roster that is
\* marked blocked stands on the tile that its blocking operator occupies,
\* and that operator is in the deployed roster and alive, also when
\* commands have retreated the operator and deployed it again before the
\* tick.
C37_BlockedEnemyOnBlockersTile ==
    sim.after_update =>
        \A i \in 1..Len(gm.active_enemies) :
            enemies[gm.active_enemies[i]].is_blocked =>
                /\ enemies[gm.active_enemies[i]].blocked_by # None
                /\ InSeq(enemies[gm.active_enemies[i]].blocked_by, gm.deployed_operators)
                /\ operators[enemies[gm.active_enemies[i]].blocked_by].is_alive
                /\ get_tile_at(enemies[gm.active_enemies[i]].position) # NoTile
                /\ tiles[get_tile_at(enemies[gm.active_enemies[i]].position)]
                       = enemies[gm.active_enemies[i]].blocked_by

\* an operator that a RETREAT command has taken off the map and that has
\* not been deployed since: Operator.retreat leaves position None, which
\* no other method does
Retreated(id) == ~operators[id].is_deployed /\ operators[id].position = NonePos

\* C38: only deployed operators take damage: the HP of an operator that has
\* been retreated does not change in any step while it stays retreated.
C38_RetreatedOperatorKeepsHp ==
    [][\A id \in DOMAIN operators :
           Retreated(id) => operators'[id].current_hp = operators[id].current_hp]_vars

(***************************************************************************)
(* Properties of dead enemies                                              *)
(***************************************************************************)
\* the world inside GameMap.update between the two loops of _process_combat
AfterOperatorsAttack ==
    Bind(update_cost(World), LAMBDA w1 :
      Bind(update_operators(w1, w1.gm.deployed_operators, 1), LAMBDA w2 :
        operators_attack(update_enemies(w2, w2.gm.active_enemies, 1), 1)))

\* enemy id passes the test of the second loop of _process_combat in world w
Strikes(w, id) ==
    /\ w.en[id].is_blocked
    /\ FLe(w.en[id].attack_cooldown, FZero)
    /\ w.en[id].blocked_by # None

\* in a tick, no enemy that the operators' attacks have just killed strikes
\* its blocker in the same combat step
DeadEnemyHoldsFire ==
    sim'.ticks # sim.ticks =>
        Bind(AfterOperatorsAttack, LAMBDA w :
            \A i \in 1..Len(w.gm.active_enemies) :
                ~w.en[w.gm.active_enemies[i]].is_alive
                    => ~Strikes(w, w.gm.active_enemies[i]))

\* an enemy that is dead before a step neither moves nor reaches the goal
\* in it
DeadEnemyStaysPut ==
    \A j \in 1..Len(enemies) :
        ~enemies[j].is_alive =>
            /\ enemies'[j].position = enemies[j].position
            /\ enemies'[j].path_index = enemies[j].path_index
            /\ enemies'[j].has_reached_goal = enemies[j].has_reached_goal

\* C39: a dead enemy has no further effect on the world: from the moment
\* its HP reaches 0 it deals no damage to any operator, not even later in
\* the same combat step, it does not move, and it never reaches the goal
\* and costs a life point.
C39_DeadEnemyHasNoEffect == [][DeadEnemyHoldsFire /\ DeadEnemyStaysPut]_vars

(***************************************************************************)
(* Properties of active skills                                             *)
(***************************************************************************)
\* an activation attempt on an active skill, by command or by the automatic
\* trigger, leaves the skill as it is
ActiveSkillRefusesActivation ==
    \A s \in SkillsInPlay : s.is_active => activate(s) = s

\* an ACTIVATE_SKILL command on an active skill fails and changes nothing
CommandOnActiveFails ==
    (SkillCommandStep /\ CommandedSkill.is_active)
        => ~last'.success /\ operators' = operators

\* C40: active and ready are distinct skill states: while a skill is
\* active, an activation attempt (manual command or automatic trigger)
\* fails and does not restart its remaining duration or ammo, so a skill is
\* activated again only after expiry or consumption has deactivated it.
C40_ActiveSkillNotReactivated ==
    []ActiveSkillRefusesActivation /\ [][CommandOnActiveFails]_vars

====
